---- MODULE Spec2Model ----
(***************************************************************************)
(* A model of plox, a tree-walking interpreter for Lox: the driver         *)
(* (lox.py), the Scanner, the Parser, the Resolver and the Interpreter.    *)
(* Strings are sequences of one-character strings; Python indices are      *)
(* 0-based and are kept so (source[i] is Sequence element i + 1).          *)
(***************************************************************************)
EXTENDS Integers, Sequences, FiniteSets, TLC

\* value bound to a name once: Body is applied to it
With(value, Body(_)) == Body(value)

VARIABLES
    mode,               \* entry point in use: "file", "repl", "scan", "parse"
    pc,                 \* position of the driver inside run_file / run_prompt / run
    source,             \* Scanner.source (the string handed to run)
    start,              \* Scanner.start
    current,            \* Scanner.current
    line,               \* Scanner.line
    tokens,             \* Scanner.tokens, later Parser.tokens
    p_current,          \* Parser.current
    statements,         \* the list built by Parser.parse
    next_id,            \* identity given to the next syntax node (object identity)
    had_error,          \* lox.had_error
    had_runtime_error,  \* lox.had_runtime_error
    stdout,             \* lines written to sys.stdout
    stderr,             \* lines written to sys.stderr
    exit_code,          \* status the process ended with (-1 while running)
    interpreter,        \* lox.interpreter: the Interpreter's fields
    index,              \* statements of the list already executed by interpret
    stages,             \* history: stages entered by the current run(source)
    lines_read          \* history: number of sources handed to run so far

vars == <<mode, pc, source, start, current, line, tokens, p_current, statements,
          next_id, had_error, had_runtime_error, stdout, stderr, exit_code,
          interpreter, index, stages, lines_read>>

(***************************************************************************)
(* Bounds                                                                  *)
(***************************************************************************)
MaxLen == 3         \* longest source enumerated exhaustively for the scanner
MaxParseLen == 4    \* longest source enumerated exhaustively for the parser
MaxLines == 2       \* most lines typed at the prompt of one REPL session

(***************************************************************************)
(* Characters                                                              *)
(***************************************************************************)
NUL == "NUL"        \* the "\0" returned by peek / peek_next at the end
NL == "\n"
QUOTE == "\""

Digits == {"0", "1", "2", "3", "4", "5", "6", "7", "8", "9"}

Letters ==
    {"a", "b", "c", "d", "e", "f", "g", "h", "i", "j", "k", "l", "m",
     "n", "o", "p", "q", "r", "s", "t", "u", "v", "w", "x", "y", "z",
     "A", "B", "C", "D", "E", "F", "G", "H", "I", "J", "K", "L", "M",
     "N", "O", "P", "Q", "R", "S", "T", "U", "V", "W", "X", "Y", "Z", "_"}

is_digit(c) == c \in Digits

is_alpha(c) == c \in Letters

is_alphanumeric(c) == is_alpha(c) \/ is_digit(c)

keywords ==
    (<<"a", "n", "d">> :> "AND") @@
    (<<"c", "l", "a", "s", "s">> :> "CLASS") @@
    (<<"e", "l", "s", "e">> :> "ELSE") @@
    (<<"f", "a", "l", "s", "e">> :> "FALSE") @@
    (<<"f", "o", "r">> :> "FOR") @@
    (<<"f", "u", "n">> :> "FUN") @@
    (<<"i", "f">> :> "IF") @@
    (<<"n", "i", "l">> :> "NIL") @@
    (<<"o", "r">> :> "OR") @@
    (<<"p", "r", "i", "n", "t">> :> "PRINT") @@
    (<<"r", "e", "t", "u", "r", "n">> :> "RETURN") @@
    (<<"s", "u", "p", "e", "r">> :> "SUPER") @@
    (<<"t", "h", "i", "s">> :> "THIS") @@
    (<<"t", "r", "u", "e">> :> "TRUE") @@
    (<<"v", "a", "r">> :> "VAR") @@
    (<<"w", "h", "i", "l", "e">> :> "WHILE")

(***************************************************************************)
(* Values.  A number is the fraction n / d in lowest terms, d > 0.         *)
(***************************************************************************)
None == [k |-> "nil"]

Bool(b) == [k |-> "bool", v |-> b]

Str(s) == [k |-> "str", v |-> s]

RECURSIVE Gcd(_, _)
Gcd(a, b) == IF b = 0 THEN a ELSE Gcd(b, a % b)

Abs(n) == IF n < 0 THEN -n ELSE n

Num(n, d) ==
    LET g == Gcd(Abs(n), d)
    IN  [k |-> "num", n |-> n \div g, d |-> d \div g]

DigitValue(c) == CHOOSE i \in 0..9 : <<"0", "1", "2", "3", "4", "5", "6", "7", "8", "9">>[i + 1] = c

RECURSIVE Pow10(_)
Pow10(e) == IF e = 0 THEN 1 ELSE 10 * Pow10(e - 1)

RECURSIVE DigitsValue(_)
DigitsValue(ds) ==
    IF ds = <<>> THEN 0
    ELSE 10 * DigitsValue(SubSeq(ds, 1, Len(ds) - 1)) + DigitValue(ds[Len(ds)])

\* float(text) for a text DIGIT+ ( "." DIGIT+ )?
float(text) ==
    LET dots == {i \in 1..Len(text) : text[i] = "."}
    IN  IF dots = {} THEN Num(DigitsValue(text), 1)
        ELSE LET p == CHOOSE i \in dots : TRUE
                 frac == SubSeq(text, p + 1, Len(text))
             IN  Num(DigitsValue(SubSeq(text, 1, p - 1)) * Pow10(Len(frac)) + DigitsValue(frac),
                     Pow10(Len(frac)))

(***************************************************************************)
(* Tokens and diagnostics                                                  *)
(***************************************************************************)
Token(token_type, lexeme, literal, ln) ==
    [token_type |-> token_type, lexeme |-> lexeme, literal |-> literal, line |-> ln]

\* lox.report: the line printed on sys.stderr; the caller also sets had_error.
report(ln, where, message) ==
    [line |-> ln, where |-> where, lexeme |-> <<>>, message |-> message]

\* lox.error(item, message) for an int item.
error_line(ln, message) == report(ln, "", message)

\* lox.error(item, message) for a Token item.
error_token(token, message) ==
    IF token.token_type = "EOF"
    THEN report(token.line, "at end", message)
    ELSE [report(token.line, "at", message) EXCEPT !.lexeme = token.lexeme]

(***************************************************************************)
(* Scanner.  A scanner is the record s of its fields, together with the    *)
(* diagnostics it printed (errors) and the Python exception that is        *)
(* propagating out of it (raised, "" for none).                            *)
(***************************************************************************)
Scanner(src) ==
    [source |-> src, tokens |-> <<>>, start |-> 0, current |-> 0, line |-> 1,
     errors |-> <<>>, raised |-> ""]

is_at_end(s) == s.current >= Len(s.source)

peek(s) == IF is_at_end(s) THEN NUL ELSE s.source[s.current + 1]

peek_next(s) ==
    IF s.current + 1 >= Len(s.source) THEN NUL ELSE s.source[s.current + 2]

\* self.source[self.current] raises IndexError past the end of the string.
advance(s) ==
    IF s.raised # "" THEN s
    ELSE IF s.current >= Len(s.source) THEN [s EXCEPT !.raised = "IndexError"]
    ELSE [s EXCEPT !.current = @ + 1]

match(s, expected) ==
    IF is_at_end(s) THEN FALSE
    ELSE s.source[s.current + 1] = expected

\* the scanner after a call of match(expected)
matched(s, expected) ==
    IF match(s, expected) THEN [s EXCEPT !.current = @ + 1] ELSE s

add_token(s, token_type, literal) ==
    [s EXCEPT !.tokens = Append(@, Token(token_type,
                                         SubSeq(s.source, s.start + 1, s.current),
                                         literal, s.line))]

scan_error(s, ln, message) == [s EXCEPT !.errors = Append(@, error_line(ln, message))]

RECURSIVE line_comment(_)
line_comment(s) ==
    IF peek(s) # NL /\ ~is_at_end(s) THEN line_comment(advance(s)) ELSE s

\* the loop `while delimiters:` and the advance() that follows it
RECURSIVE block_comment(_, _, _)
block_comment(s, delimiters, comment_start) ==
    IF delimiters = 0 THEN advance(s)
    ELSE LET curr == peek(s)
             next == peek_next(s)
         IN  IF next = NUL
             THEN advance(scan_error(s, comment_start, "unterminated block comment"))
             ELSE IF curr = "/" /\ next = "*"
             THEN block_comment(advance(s), delimiters + 1, comment_start)
             ELSE IF curr = "*" /\ next = "/"
             THEN block_comment(advance(s), delimiters - 1, comment_start)
             ELSE IF curr = NL
             THEN block_comment(advance([s EXCEPT !.line = @ + 1]), delimiters, comment_start)
             ELSE block_comment(advance(s), delimiters, comment_start)

RECURSIVE string_body(_)
string_body(s) ==
    IF peek(s) # QUOTE /\ ~is_at_end(s)
    THEN string_body(advance(IF peek(s) = NL THEN [s EXCEPT !.line = @ + 1] ELSE s))
    ELSE s

string(s0) ==
    LET s == string_body(s0)
    IN  IF is_at_end(s) THEN scan_error(s, s.line, "unterminated string")
        ELSE LET t == advance(s)
             IN  add_token(t, "STRING", Str(SubSeq(t.source, t.start + 2, t.current - 1)))

RECURSIVE digits(_)
digits(s) == IF is_digit(peek(s)) THEN digits(advance(s)) ELSE s

number(s0) ==
    LET s == digits(s0)
        t == IF peek(s) = "." /\ is_digit(peek_next(s)) THEN digits(advance(s)) ELSE s
    IN  add_token(t, "NUMBER", float(SubSeq(t.source, t.start + 1, t.current)))

RECURSIVE alphanumerics(_)
alphanumerics(s) == IF is_alphanumeric(peek(s)) THEN alphanumerics(advance(s)) ELSE s

identifier(s0) ==
    LET s == alphanumerics(s0)
        text == SubSeq(s.source, s.start + 1, s.current)
    IN  IF text \in DOMAIN keywords THEN add_token(s, keywords[text], None)
        ELSE add_token(s, "IDENTIFIER", None)

two_char(s, long, short) ==
    IF match(s, "=") THEN add_token(matched(s, "="), long, None)
    ELSE add_token(s, short, None)

scan_token(s0) ==
    LET c == s0.source[s0.current + 1]
        s == advance(s0)
    IN  CASE c = "(" -> add_token(s, "LEFT_PAREN", None)
          [] c = ")" -> add_token(s, "RIGHT_PAREN", None)
          [] c = "{" -> add_token(s, "LEFT_BRACE", None)
          [] c = "}" -> add_token(s, "RIGHT_BRACE", None)
          [] c = "," -> add_token(s, "COMMA", None)
          [] c = "." -> add_token(s, "DOT", None)
          [] c = "-" -> add_token(s, "MINUS", None)
          [] c = "+" -> add_token(s, "PLUS", None)
          [] c = ";" -> add_token(s, "SEMICOLON", None)
          [] c = "*" -> add_token(s, "STAR", None)
          [] c = "!" -> two_char(s, "BANG_EQUAL", "BANG")
          [] c = "=" -> two_char(s, "EQUAL_EQUAL", "EQUAL")
          [] c = "<" -> two_char(s, "LESSER_EQUAL", "LESSER")
          [] c = ">" -> two_char(s, "GREATER_EQUAL", "GREATER")
          [] c = "/" -> IF match(s, "/") THEN line_comment(matched(s, "/"))
                        ELSE IF match(s, "*")
                        THEN block_comment(matched(s, "*"), 1, s.line)
                        ELSE add_token(s, "SLASH", None)
          [] c \in {" ", "\r", "\t"} -> s
          [] c = NL -> [s EXCEPT !.line = @ + 1]
          [] c = QUOTE -> string(s)
          [] OTHER -> IF is_digit(c) THEN number(s)
                      ELSE IF is_alpha(c) THEN identifier(s)
                      ELSE scan_error(s, s.line, "unexpected character")

\* one turn of the loop of scan_tokens
scan_step(s) == scan_token([s EXCEPT !.start = s.current])

scan_eof(s) == [s EXCEPT !.tokens = Append(@, Token("EOF", <<>>, None, s.line))]

RECURSIVE scan_tokens(_)
scan_tokens(s) ==
    IF s.raised # "" THEN s
    ELSE IF is_at_end(s) THEN scan_eof(s)
    ELSE scan_tokens(scan_step(s))

(***************************************************************************)
(* Syntax trees.  Every expression carries the identity (id) under which   *)
(* the interpreter's local_env keys it.                                    *)
(***************************************************************************)
NoneNode == [type |-> "None"]

Assign(id, name, value) == [type |-> "Assign", id |-> id, name |-> name, value |-> value]

Binary(id, left, operator, right) ==
    [type |-> "Binary", id |-> id, left |-> left, operator |-> operator, right |-> right]

Call(id, callee, paren, arguments) ==
    [type |-> "Call", id |-> id, callee |-> callee, paren |-> paren, arguments |-> arguments]

Get(id, item, name) == [type |-> "Get", id |-> id, item |-> item, name |-> name]

Grouping(id, expression) == [type |-> "Grouping", id |-> id, expression |-> expression]

Literal(id, value) == [type |-> "Literal", id |-> id, value |-> value]

Logical(id, left, operator, right) ==
    [type |-> "Logical", id |-> id, left |-> left, operator |-> operator, right |-> right]

Set(id, item, name, value) ==
    [type |-> "Set", id |-> id, item |-> item, name |-> name, value |-> value]

Super(id, keyword, method) ==
    [type |-> "Super", id |-> id, keyword |-> keyword, method |-> method]

This(id, keyword) == [type |-> "This", id |-> id, keyword |-> keyword]

Unary(id, operator, right) ==
    [type |-> "Unary", id |-> id, operator |-> operator, right |-> right]

Variable(id, name) == [type |-> "Variable", id |-> id, name |-> name]

Comma(id, left, right) == [type |-> "Comma", id |-> id, left |-> left, right |-> right]

Conditional(id, condition, then_expression, else_expression) ==
    [type |-> "Conditional", id |-> id, condition |-> condition,
     then_expression |-> then_expression, else_expression |-> else_expression]

Block(stmts) == [type |-> "Block", statements |-> stmts]

Class(name, superclass, methods) ==
    [type |-> "Class", name |-> name, superclass |-> superclass, methods |-> methods]

Expression(expression) == [type |-> "Expression", expression |-> expression]

Function(name, params, body) ==
    [type |-> "Function", name |-> name, params |-> params, body |-> body]

If(condition, then_branch, else_branch) ==
    [type |-> "If", condition |-> condition, then_branch |-> then_branch,
     else_branch |-> else_branch]

PrintStmt(expression) == [type |-> "Print", expression |-> expression]

ReturnStmt(keyword, value) == [type |-> "Return", keyword |-> keyword, value |-> value]

While(condition, body) == [type |-> "While", condition |-> condition, body |-> body]

\* variables: the dict of the declaration, as its (name, initializer) pairs in order
Var(variables) == [type |-> "Var", variables |-> variables]

(***************************************************************************)
(* Parser.  A parser is the record p of its fields, the diagnostics it     *)
(* printed, whether a LoxParserError is propagating (raised), and the      *)
(* value returned by the last parsing method (node).                       *)
(***************************************************************************)
Parser(toks, id) ==
    [tokens |-> toks, current |-> 0, next_id |-> id, errors |-> <<>>,
     raised |-> FALSE, node |-> NoneNode]

p_peek(p) == p.tokens[p.current + 1]

\* tokens[current - 1]; index -1 is the last token
p_previous(p) == IF p.current = 0 THEN p.tokens[Len(p.tokens)] ELSE p.tokens[p.current]

p_is_at_end(p) == p_peek(p).token_type = "EOF"

check(p, token_type) ==
    IF p_is_at_end(p) THEN FALSE ELSE p_peek(p).token_type = token_type

p_advance(p) == IF ~p_is_at_end(p) THEN [p EXCEPT !.current = @ + 1] ELSE p

\* whether match(*token_types) consumes a token; it then advances
p_match(p, token_types) == \E t \in token_types : check(p, t)

p_error(p, token, message) ==
    [p EXCEPT !.errors = Append(@, error_token(token, message)), !.raised = TRUE]

consume(p, token_type, message) ==
    IF check(p, token_type) THEN p_advance(p) ELSE p_error(p, p_peek(p), message)

returns(p, node) == [p EXCEPT !.node = node]

\* a freshly constructed expression object
create(p, node) == [p EXCEPT !.node = node, !.next_id = @ + 1]

RECURSIVE expression(_), comma(_), comma_loop(_), conditional(_), conditional_branches(_),
          assignment(_),
          binary_level(_, _), binary_loop(_, _), loops_up_to(_, _, _), unary(_), finish_call(_),
          arguments_loop(_, _), call(_), call_loop(_), primary(_)

expression(p) == comma(p)

\* the loop `while self.match(TokenType.COMMA)` of comma; p.node is the left
\* operand, and a LoxParserError it raised leaves comma before the loop
comma_loop(p) ==
    IF p.raised THEN p
    ELSE IF p_match(p, {"COMMA"})
    THEN With(conditional(p_advance(p)), LAMBDA right :
             IF right.raised THEN right
             ELSE comma_loop(create(right, Comma(right.next_id, p.node, right.node))))
    ELSE p

comma(p) == comma_loop(conditional(p))

\* conditional once logical_or has returned: e.node is the condition
conditional_branches(e) ==
    IF e.raised THEN e
    ELSE IF p_match(e, {"QMARK"})
    THEN With(expression(p_advance(e)), LAMBDA t :
             IF t.raised THEN t
             ELSE With(consume(t, "COLON", "expect ':' after first expression"), LAMBDA c :
                      IF c.raised THEN c
                      ELSE With(conditional(c), LAMBDA f :
                               IF f.raised THEN f
                               ELSE create(f, Conditional(f.next_id, e.node, t.node, f.node)))))
    ELSE e

conditional(p) == conditional_branches(binary_level(p, "logical_or"))

assignment(p) ==
    With(binary_level(p, "logical_or"), LAMBDA e :
        IF e.raised THEN e
        ELSE IF p_match(e, {"EQUAL"})
        THEN With(p_advance(e), LAMBDA q :
                 With(p_previous(q), LAMBDA equals :
                 With(assignment(q), LAMBDA value :
                 IF value.raised THEN value
                 ELSE IF e.node.type = "Variable"
                 THEN create(value, Assign(value.next_id, e.node.name, value.node))
                 ELSE IF e.node.type = "Get"
                 THEN create(value, Set(value.next_id, e.node.item, e.node.name, value.node))
                 ELSE p_error(value, equals, "invalid assignment target"))))
        ELSE e)

\* the operators matched by each binary rule, and the rule of its operands
LevelOperators(level) ==
    CASE level = "logical_or" -> {"OR"}
      [] level = "logical_and" -> {"AND"}
      [] level = "equality" -> {"BANG_EQUAL", "EQUAL_EQUAL"}
      [] level = "comparison" -> {"GREATER", "GREATER_EQUAL", "LESSER", "LESSER_EQUAL"}
      [] level = "term" -> {"MINUS", "PLUS"}
      [] level = "factor" -> {"SLASH", "STAR"}

LevelOperand(level) ==
    CASE level = "logical_or" -> "logical_and"
      [] level = "logical_and" -> "equality"
      [] level = "equality" -> "comparison"
      [] level = "comparison" -> "term"
      [] level = "term" -> "factor"
      [] level = "factor" -> "unary"

operand(p, level) ==
    IF LevelOperand(level) = "unary" THEN unary(p) ELSE binary_level(p, LevelOperand(level))

\* the loop `while self.match(...)` of a binary rule; p.node is the left operand
binary_loop(p, level) ==
    IF p_match(p, LevelOperators(level))
    THEN With(p_advance(p), LAMBDA q :
             With(p_previous(q), LAMBDA operator :
             With(operand(q, level), LAMBDA right :
             IF right.raised THEN right
             ELSE binary_loop(
                    create(right,
                           IF level \in {"logical_or", "logical_and"}
                           THEN Logical(right.next_id, p.node, operator, right.node)
                           ELSE Binary(right.next_id, p.node, operator, right.node)),
                    level))))
    ELSE p

\* the rule above each binary rule: the one that calls it for its operands
LevelAbove(level) ==
    CASE level = "factor" -> "term"
      [] level = "term" -> "comparison"
      [] level = "comparison" -> "equality"
      [] level = "equality" -> "logical_and"
      [] level = "logical_and" -> "logical_or"

\* Every binary rule begins by calling the rule of its operands, down to
\* unary, and loops once that call has returned: p holds the operand parsed
\* so far, and the loops run from the innermost rule (level) out to top.
loops_up_to(p, level, top) ==
    IF p.raised THEN p
    ELSE IF level = top THEN binary_loop(p, level)
    ELSE loops_up_to(binary_loop(p, level), LevelAbove(level), top)

binary_level(p, level) == loops_up_to(unary(p), "factor", level)

logical_or(p) == binary_level(p, "logical_or")

logical_and(p) == binary_level(p, "logical_and")

equality(p) == binary_level(p, "equality")

comparison(p) == binary_level(p, "comparison")

term(p) == binary_level(p, "term")

factor(p) == binary_level(p, "factor")

unary(p) ==
    IF p_match(p, {"BANG", "MINUS"})
    THEN With(p_advance(p), LAMBDA q :
             With(p_previous(q), LAMBDA operator :
             With(unary(q), LAMBDA right :
             IF right.raised THEN right
             ELSE create(right, Unary(right.next_id, operator, right.node)))))
    ELSE call(p)

\* the loop `while self.match(TokenType.COMMA)` of finish_call
arguments_loop(p, arguments) ==
    IF p_match(p, {"COMMA"})
    THEN With(p_advance(p), LAMBDA q :
             IF Len(arguments) >= 255
             THEN p_error(q, p_peek(q), "cannot exceed 255 arguments")
             ELSE With(expression(q), LAMBDA e :
                      IF e.raised THEN e ELSE arguments_loop(e, Append(arguments, e.node))))
    ELSE returns(p, arguments)

\* p.node is the callee; "(" has been consumed
finish_call(p) ==
    With(p.node, LAMBDA callee :
        With(IF ~check(p, "RIGHT_PAREN")
             THEN With(expression(p), LAMBDA e :
                      IF e.raised THEN e ELSE arguments_loop(e, <<e.node>>))
             ELSE returns(p, <<>>), LAMBDA a :
        IF a.raised THEN a
        ELSE With(consume(a, "RIGHT_PAREN", "expect ')' after arguments"), LAMBDA c :
                 IF c.raised THEN c
                 ELSE create(c, Call(c.next_id, callee, p_previous(c), a.node)))))

\* one turn of the loop `while True` of call: an `if` for "(", then an
\* `if`/`else` for "." whose else branch leaves the loop
\* p.node is the expression so far; a LoxParserError raised by primary leaves
\* call before the loop
call_loop(p) ==
    IF p.raised THEN p
    ELSE With(IF p_match(p, {"LEFT_PAREN"}) THEN finish_call(p_advance(p)) ELSE p, LAMBDA a :
        IF a.raised THEN a
        ELSE IF p_match(a, {"DOT"})
        THEN With(consume(p_advance(a), "IDENTIFIER", "expect poerty name after '.'"), LAMBDA n :
                 IF n.raised THEN n
                 ELSE call_loop(create(n, Get(n.next_id, a.node, p_previous(n)))))
        ELSE a)

call(p) == call_loop(primary(p))

primary(p) ==
    CASE p_match(p, {"FALSE"}) -> create(p_advance(p), Literal(p.next_id, Bool(FALSE)))
      [] p_match(p, {"TRUE"}) -> create(p_advance(p), Literal(p.next_id, Bool(TRUE)))
      [] p_match(p, {"NIL"}) -> create(p_advance(p), Literal(p.next_id, None))
      [] p_match(p, {"NUMBER", "STRING"}) ->
            create(p_advance(p), Literal(p.next_id, p_peek(p).literal))
      [] p_match(p, {"SUPER"}) ->
            With(p_advance(p), LAMBDA q :
            With(p_previous(q), LAMBDA keyword :
            With(consume(q, "DOT", "expect '.' after 'super'"), LAMBDA d :
            IF d.raised THEN d
            ELSE With(consume(d, "IDENTIFIER", "expect superclass method name"), LAMBDA m :
                     IF m.raised THEN m
                     ELSE create(m, Super(m.next_id, keyword, p_previous(m)))))))
      [] p_match(p, {"THIS"}) -> create(p_advance(p), This(p.next_id, p_peek(p)))
      [] p_match(p, {"IDENTIFIER"}) -> create(p_advance(p), Variable(p.next_id, p_peek(p)))
      [] p_match(p, {"LEFT_PAREN"}) ->
            With(expression(p_advance(p)), LAMBDA e :
            IF e.raised THEN e
            ELSE With(consume(e, "RIGHT_PAREN", "Expect ')' after expression."), LAMBDA c :
                     IF c.raised THEN c ELSE create(c, Grouping(c.next_id, e.node))))
      [] OTHER -> p_error(p, p_peek(p), "expected expression")

StatementStarts == {"CLASS", "FOR", "FUN", "IF", "PRINT", "RETURN", "VAR", "WHILE"}

\* the loop of synchronize, after its first advance()
RECURSIVE synchronize_loop(_)
synchronize_loop(p) ==
    IF p_is_at_end(p) THEN p
    ELSE IF p_previous(p).token_type = "SEMICOLON" THEN p
    ELSE IF p_peek(p).token_type \in StatementStarts THEN p
    ELSE synchronize_loop(p_advance(p))

\* synchronize without the advance() before its loop
synchronize_from_the_error(p) == synchronize_loop(p)

synchronize(p) == synchronize_loop(p_advance(p))

RECURSIVE declaration(_), class_declaration(_), methods_loop(_, _),
          function_declaration(_, _), parameters_loop(_, _), var_declaration(_),
          var_loop(_, _), statement(_), expression_statement(_), for_statement(_),
          if_statement(_), print_statement(_), return_statement(_),
          while_statement(_), block(_), block_loop(_, _)

\* the try/except of declaration: a LoxParserError ends in synchronize and None
declaration(p) ==
    With(IF p_match(p, {"CLASS"}) THEN class_declaration(p_advance(p))
             ELSE IF p_match(p, {"FUN"}) THEN function_declaration(p_advance(p), "function")
             ELSE IF p_match(p, {"VAR"}) THEN var_declaration(p_advance(p))
             ELSE statement(p), LAMBDA r :
        IF r.raised
        THEN returns(synchronize([r EXCEPT !.raised = FALSE]), NoneNode)
        ELSE r)

methods_loop(p, methods) ==
    IF ~check(p, "RIGHT_BRACE") /\ ~p_is_at_end(p)
    THEN With(function_declaration(p, "method"), LAMBDA m :
             IF m.raised THEN m ELSE methods_loop(m, Append(methods, m.node)))
    ELSE returns(p, methods)

class_declaration(p) ==
    With(consume(p, "IDENTIFIER", "expect class name"), LAMBDA n :
        IF n.raised THEN n
        ELSE With(p_previous(n), LAMBDA name :
                 With(IF p_match(n, {"LESSER"})
                      THEN With(consume(p_advance(n), "IDENTIFIER", "expect superclass name"), LAMBDA c :
                               IF c.raised THEN c
                               ELSE create(c, Variable(c.next_id, p_previous(c))))
                      ELSE returns(n, NoneNode), LAMBDA s :
                 IF s.raised THEN s
                 ELSE With(consume(s, "LEFT_BRACE", "expect '{' before class body"), LAMBDA b :
                          IF b.raised THEN b
                          ELSE With(methods_loop(b, <<>>), LAMBDA ms :
                                   IF ms.raised THEN ms
                                   ELSE With(consume(ms, "RIGHT_BRACE",
                                                         "expect '}' after class body"), LAMBDA e :
                                            IF e.raised THEN e
                                            ELSE returns(e, Class(name, s.node, ms.node))))))))

\* the loop `while self.match(TokenType.COMMA)` of function_declaration
parameters_loop(p, parameters) ==
    IF p_match(p, {"COMMA"})
    THEN With(p_advance(p), LAMBDA q :
             IF Len(parameters) >= 255
             THEN p_error(q, p_peek(q), "cannot exceed 255 parameters")
             ELSE With(consume(q, "IDENTIFIER", "expect parameter name"), LAMBDA c :
                      IF c.raised THEN c
                      ELSE parameters_loop(c, Append(parameters, p_previous(c)))))
    ELSE returns(p, parameters)

function_declaration(p, kind) ==
    With(consume(p, "IDENTIFIER",
                     IF kind = "function" THEN "expect function name."
                     ELSE "expect method name."), LAMBDA n :
        IF n.raised THEN n
        ELSE With(p_previous(n), LAMBDA name :
                 With(consume(n, "LEFT_PAREN",
                              IF kind = "function" THEN "expect '(' after function name."
                              ELSE "expect '(' after method name."), LAMBDA l :
                 IF l.raised THEN l
                 ELSE With(IF ~check(l, "RIGHT_PAREN")
                                THEN With(consume(l, "IDENTIFIER", "expect parameter name"), LAMBDA c :
                                         IF c.raised THEN c
                                         ELSE parameters_loop(c, <<p_previous(c)>>))
                                ELSE returns(l, <<>>), LAMBDA ps :
                          IF ps.raised THEN ps
                          ELSE With(consume(ps, "RIGHT_PAREN", "expect ')' after parameters"), LAMBDA r :
                                   IF r.raised THEN r
                                   ELSE With(consume(r, "LEFT_BRACE",
                                                         IF kind = "function"
                                                         THEN "expect '{' before function body"
                                                         ELSE "expect '{' before method body"), LAMBDA b :
                                            IF b.raised THEN b
                                            ELSE With(block(b), LAMBDA body :
                                                     IF body.raised THEN body
                                                     ELSE returns(body,
                                                            Function(name, ps.node, body.node)))))))))

\* one turn of the loop `while True` of var_declaration
var_loop(p, variables) ==
    With(consume(p, "IDENTIFIER", "expect variable name"), LAMBDA n :
        IF n.raised THEN n
        ELSE With(p_previous(n), LAMBDA name :
                 With(IF p_match(n, {"EQUAL"}) THEN conditional(p_advance(n))
                      ELSE returns(n, NoneNode), LAMBDA i :
                 IF i.raised THEN i
                 ELSE IF \E j \in 1..Len(variables) : variables[j][1].lexeme = name.lexeme
                 THEN p_error(i, name, "reuse of same variable in declaration")
                 ELSE With(Append(variables, <<name, i.node>>), LAMBDA vs :
                          IF p_match(i, {"COMMA"}) THEN var_loop(p_advance(i), vs)
                          ELSE returns(i, vs)))))

var_declaration(p) ==
    With(var_loop(p, <<>>), LAMBDA vs :
        IF vs.raised THEN vs
        ELSE With(consume(vs, "SEMICOLON", "expect ';' after variable declaration"), LAMBDA c :
                 IF c.raised THEN c ELSE returns(c, Var(vs.node))))

statement(p) ==
    IF p_match(p, {"FOR"}) THEN for_statement(p_advance(p))
    ELSE IF p_match(p, {"IF"}) THEN if_statement(p_advance(p))
    ELSE IF p_match(p, {"PRINT"}) THEN print_statement(p_advance(p))
    ELSE IF p_match(p, {"RETURN"}) THEN return_statement(p_advance(p))
    ELSE IF p_match(p, {"WHILE"}) THEN while_statement(p_advance(p))
    ELSE IF p_match(p, {"LEFT_BRACE"})
    THEN With(block(p_advance(p)), LAMBDA b :
             IF b.raised THEN b ELSE returns(b, Block(b.node)))
    ELSE expression_statement(p)

\* expression_statement with consume(SEMICOLON, ...) in place of match
expression_statement_consumes(p) ==
    With(expression(p), LAMBDA e :
        IF e.raised THEN e
        ELSE With(consume(e, "SEMICOLON", "expect ';' after expression"), LAMBDA c :
                 IF c.raised THEN c ELSE returns(c, Expression(e.node))))

\* the semicolon is optional: match(SEMICOLON) consumes it if it is there
expression_statement(p) ==
    With(expression(p), LAMBDA e :
        IF e.raised THEN e
        ELSE returns(IF p_match(e, {"SEMICOLON"}) THEN p_advance(e) ELSE e,
                     Expression(e.node)))

for_statement(p) ==
    With(consume(p, "LEFT_PAREN", "expect '(' after 'while'"), LAMBDA l :
        IF l.raised THEN l
        ELSE With(IF p_match(l, {"SEMICOLON"}) THEN returns(p_advance(l), NoneNode)
                      ELSE IF p_match(l, {"VAR"}) THEN var_declaration(p_advance(l))
                      ELSE expression_statement(l), LAMBDA i :
                 IF i.raised THEN i
                 ELSE With(IF ~check(i, "SEMICOLON") THEN expression(i)
                               ELSE returns(i, NoneNode), LAMBDA c :
                          IF c.raised THEN c
                          ELSE With(consume(c, "SEMICOLON", "expect ';' after loop condition"), LAMBDA s :
                                   IF s.raised THEN s
                                   ELSE With(IF ~check(s, "RIGHT_PAREN") THEN expression(s)
                                                 ELSE returns(s, NoneNode), LAMBDA n :
                                            IF n.raised THEN n
                                            ELSE With(consume(n, "RIGHT_PAREN",
                                                                  "expect ')' after for clauses"), LAMBDA r :
                                                     IF r.raised THEN r
                                                     ELSE With(statement(r), LAMBDA b :
                                                              With(IF n.node.type # "None"
                                                                       THEN Block(<<b.node, Expression(n.node)>>)
                                                                       ELSE b.node, LAMBDA body1 :
                                                              With(IF c.node.type = "None"
                                                                      THEN Literal(b.next_id, Bool(TRUE))
                                                                      ELSE c.node, LAMBDA cond :
                                                              With(While(cond, body1), LAMBDA body2 :
                                                              With(IF i.node.type # "None"
                                                                       THEN Block(<<i.node, body2>>)
                                                                       ELSE body2, LAMBDA body3 :
                                                              IF b.raised THEN b
                                                              ELSE IF c.node.type = "None"
                                                              THEN create(b, body3)
                                                              ELSE returns(b, body3))))))))))))

if_statement(p) ==
    With(consume(p, "LEFT_PAREN", "expect '(' after 'if'"), LAMBDA l :
        IF l.raised THEN l
        ELSE With(expression(l), LAMBDA c :
                 IF c.raised THEN c
                 ELSE With(consume(c, "RIGHT_PAREN", "expect ')' after if condition"), LAMBDA r :
                          IF r.raised THEN r
                          ELSE With(statement(r), LAMBDA t :
                                   IF t.raised THEN t
                                   ELSE IF p_match(t, {"ELSE"})
                                   THEN With(statement(p_advance(t)), LAMBDA e :
                                            IF e.raised THEN e
                                            ELSE returns(e, If(c.node, t.node, e.node)))
                                   ELSE returns(t, If(c.node, t.node, NoneNode))))))

print_statement(p) ==
    With(expression(p), LAMBDA value :
        IF value.raised THEN value
        ELSE With(consume(value, "SEMICOLON", "expect ';' after value"), LAMBDA c :
                 IF c.raised THEN c ELSE returns(c, PrintStmt(value.node))))

\* "return" has been consumed: keyword is previous()
return_statement(p) ==
    With(p_previous(p), LAMBDA keyword :
        With(IF ~check(p, "SEMICOLON") THEN expression(p) ELSE returns(p, NoneNode), LAMBDA value :
        IF value.raised THEN value
        ELSE With(consume(value, "SEMICOLON", "expect ';' after return value"), LAMBDA c :
                 IF c.raised THEN c ELSE returns(c, ReturnStmt(keyword, value.node)))))

while_statement(p) ==
    With(consume(p, "LEFT_PAREN", "expect '(' after 'while'"), LAMBDA l :
        IF l.raised THEN l
        ELSE With(expression(l), LAMBDA c :
                 IF c.raised THEN c
                 ELSE With(consume(c, "RIGHT_PAREN", "expect ')' after condition"), LAMBDA r :
                          IF r.raised THEN r
                          ELSE With(statement(r), LAMBDA b :
                                   IF b.raised THEN b
                                   ELSE returns(b, While(c.node, b.node))))))

block_loop(p, stmts) ==
    IF ~check(p, "RIGHT_BRACE") /\ ~p_is_at_end(p)
    THEN With(declaration(p), LAMBDA d :
             block_loop(d, Append(stmts, d.node)))
    ELSE returns(p, stmts)

block(p) ==
    With(block_loop(p, <<>>), LAMBDA b :
        With(consume(b, "RIGHT_BRACE", "expect '}' after block"), LAMBDA c :
        IF c.raised THEN c ELSE returns(c, b.node)))

(***************************************************************************)
(* Resolver.  A resolver is the record r of its fields, the diagnostics it *)
(* printed, the interpreter's local_env it fills by interpreter.resolve,   *)
(* and the Python exception propagating out of it (raised, "" for none).   *)
(* A scope is the list of its (name, LocalVariableState) entries in        *)
(* insertion order.                                                        *)
(***************************************************************************)
Resolver(local_env) ==
    [scopes |-> <<>>, current_function |-> "NONE", current_class |-> "NONE",
     loop_status |-> FALSE, errors |-> <<>>, local_env |-> local_env, raised |-> ""]

LocalVariableState(name, ready, used, line_number) ==
    [name |-> name, ready |-> ready, used |-> used, line_number |-> line_number]

InScope(scope, lexeme) == \E i \in 1..Len(scope) : scope[i].name = lexeme

ScopeIndex(scope, lexeme) == CHOOSE i \in 1..Len(scope) : scope[i].name = lexeme

\* scope[lexeme] = state
ScopePut(scope, state) ==
    IF InScope(scope, state.name)
    THEN [scope EXCEPT ![ScopeIndex(scope, state.name)] = state]
    ELSE Append(scope, state)

r_error(r, diagnostic) == [r EXCEPT !.errors = Append(@, diagnostic)]

begin_scope(r) == [r EXCEPT !.scopes = Append(@, <<>>)]

\* the diagnostics of the loop of end_scope, for the entries from index i on
RECURSIVE unused_errors(_, _)
unused_errors(scope, i) ==
    IF i > Len(scope) THEN <<>>
    ELSE (IF scope[i].used = FALSE
          THEN <<[error_line(scope[i].line_number, "local variable was not used")
                  EXCEPT !.lexeme = scope[i].name]>>
          ELSE <<>>) \o unused_errors(scope, i + 1)

end_scope(r) ==
    With(r.scopes[Len(r.scopes)], LAMBDA scope :
        [r EXCEPT !.scopes = SubSeq(@, 1, Len(@) - 1),
                  !.errors = @ \o unused_errors(scope, 1)])

declare(r, name) ==
    IF Len(r.scopes) = 0 THEN r
    ELSE With(Len(r.scopes), LAMBDA top :
             With(IF InScope(r.scopes[top], name.lexeme)
                  THEN r_error(r, error_token(name,
                         "a variable with this name already exists in this scope"))
                  ELSE r, LAMBDA e :
             [e EXCEPT !.scopes[top] =
                  ScopePut(@, LocalVariableState(name.lexeme, FALSE, FALSE, name.line))]))

define(r, name) ==
    IF Len(r.scopes) = 0 THEN r
    ELSE With(Len(r.scopes), LAMBDA top :
             [r EXCEPT !.scopes[top][ScopeIndex(r.scopes[top], name.lexeme)].ready = TRUE])

\* the loop of resolve_local from scope i (0-based) outward
RECURSIVE resolve_local_from(_, _, _, _)
resolve_local_from(r, i, expr, name) ==
    IF i < 0 THEN r
    ELSE IF InScope(r.scopes[i + 1], name.lexeme)
    THEN [r EXCEPT !.scopes[i + 1][ScopeIndex(r.scopes[i + 1], name.lexeme)].used = TRUE,
                   !.local_env = (expr.id :> (Len(r.scopes) - 1 - i)) @@ @]
    ELSE resolve_local_from(r, i - 1, expr, name)

resolve_local(r, expr, name) ==
    resolve_local_from(r, Len(r.scopes) - 1, expr, name)

RECURSIVE resolve(_, _), resolve_list(_, _), resolve_function(_, _, _),
          resolve_params(_, _), resolve_methods(_, _), resolve_vars(_, _)

\* resolve(item) for a list item
resolve_list(r, items) ==
    IF items = <<>> \/ r.raised # "" THEN r
    ELSE resolve_list(resolve(r, Head(items)), Tail(items))

resolve_params(r, params) ==
    IF params = <<>> THEN r
    ELSE resolve_params(define(declare(r, Head(params)), Head(params)), Tail(params))

resolve_function(r, function, function_type) ==
    With(r.current_function, LAMBDA enclosing_function :
        With(resolve_list(
               resolve_params(begin_scope([r EXCEPT !.current_function = function_type]),
                              function.params),
               function.body), LAMBDA b :
        IF b.raised # "" THEN b
        ELSE [end_scope(b) EXCEPT !.current_function = enclosing_function]))

resolve_methods(r, methods) ==
    IF methods = <<>> \/ r.raised # "" THEN r
    ELSE resolve_methods(
           resolve_function(r, Head(methods),
                            IF Head(methods).name.lexeme = <<"i", "n", "i", "t">>
                            THEN "INITIALIZER" ELSE "METHOD"),
           Tail(methods))

\* the loop of visit_var_stmt
resolve_vars(r, variables) ==
    IF variables = <<>> \/ r.raised # "" THEN r
    ELSE With(Head(variables)[1], LAMBDA name :
             With(Head(variables)[2], LAMBDA initializer :
             With(declare(r, name), LAMBDA d :
             With(IF initializer.type # "None" THEN resolve(d, initializer) ELSE d, LAMBDA i :
             IF i.raised # "" THEN i
             ELSE resolve_vars(define(i, name), Tail(variables))))))

r_visit_class_stmt(r, stmt) ==
    With(r.current_class, LAMBDA enclosing_class :
        With(define(declare([r EXCEPT !.current_class = "CLASS"], stmt.name),
                    stmt.name), LAMBDA d :
        With(IF stmt.superclass.type # "None"
             THEN With(IF stmt.name.lexeme = stmt.superclass.name.lexeme
                           THEN r_error(d, error_token(stmt.superclass.name,
                                          "a class cannot inherit from itself"))
                           ELSE d, LAMBDA e :
                      With(resolve([e EXCEPT !.current_class = "SUBCLASS"],
                                   stmt.superclass), LAMBDA v :
                      With(begin_scope(v), LAMBDA b :
                      [b EXCEPT !.scopes[Len(b.scopes)] =
                           ScopePut(@, LocalVariableState(<<"s", "u", "p", "e", "r">>,
                                                          TRUE, TRUE, 0))])))
             ELSE d, LAMBDA s :
        With(begin_scope(s), LAMBDA t :
        With([t EXCEPT !.scopes[Len(t.scopes)] =
                  ScopePut(@, LocalVariableState(<<"t", "h", "i", "s">>, TRUE, TRUE, 0))], LAMBDA u :
        With(resolve_methods(u, stmt.methods), LAMBDA m :
        With(end_scope(m), LAMBDA e1 :
        With(IF stmt.superclass.type # "None" THEN end_scope(e1) ELSE e1, LAMBDA e2 :
        IF m.raised # "" THEN m
        ELSE [e2 EXCEPT !.current_class = enclosing_class]))))))))

r_visit_if_stmt(r, stmt) ==
    With(resolve(r, stmt.condition), LAMBDA c :
        With(IF c.raised # "" THEN c ELSE resolve(c, stmt.then_branch), LAMBDA t :
        IF t.raised # "" THEN t
        ELSE IF stmt.else_branch.type # "None" THEN resolve(t, stmt.else_branch)
        ELSE t))

r_visit_return_stmt(r, stmt) ==
    With(IF r.current_function = "NONE"
             THEN r_error(r, error_token(stmt.keyword,
                            "cannot return from top-level code"))
             ELSE r, LAMBDA a :
        IF stmt.value.type # "None"
        THEN resolve(IF a.current_function = "INITIALIZER"
                     THEN r_error(a, error_token(stmt.keyword,
                                    "cannot return a value from an initializer"))
                     ELSE a,
                     stmt.value)
        ELSE a)

r_visit_while_stmt(r, stmt) ==
    With(resolve([r EXCEPT !.loop_status = TRUE], stmt.condition), LAMBDA c :
        With(IF c.raised # "" THEN c ELSE resolve(c, stmt.body), LAMBDA b :
        IF b.raised # "" THEN b ELSE [b EXCEPT !.loop_status = FALSE]))

r_visit_function_stmt(r, stmt) ==
    resolve_function(define(declare(r, stmt.name), stmt.name),
                     stmt, "FUNCTION")

r_visit_super_expr(r, expr) ==
    resolve_local(
        IF r.current_class = "NONE"
        THEN r_error(r, error_token(expr.keyword,
                       "cannot use 'super' outside of a class"))
        ELSE IF r.current_class # "SUBCLASS"
        THEN r_error(r, error_token(expr.keyword,
                       "cannot use 'super' in a class with no superclass"))
        ELSE r,
        expr, expr.keyword)

r_visit_this_expr(r, expr) ==
    IF r.current_class = "NONE"
    THEN r_error(r, error_token(expr.keyword, "cannot use 'this' outside of a class"))
    ELSE resolve_local(r, expr, expr.keyword)

r_visit_variable_expr(r, expr) ==
    resolve_local(
        IF /\ Len(r.scopes) # 0
           /\ InScope(r.scopes[Len(r.scopes)], expr.name.lexeme)
           /\ r.scopes[Len(r.scopes)][ScopeIndex(r.scopes[Len(r.scopes)],
                                                 expr.name.lexeme)].ready = FALSE
        THEN r_error(r, error_token(expr.name,
                       "cannot use local variable in its own initializer"))
        ELSE r,
        expr, expr.name)

\* resolve(item) for one stmt or expr: item.accept(self); any other
\* item (None) raises TypeError
resolve(r, item) ==
    With(item.type, LAMBDA t :
        IF r.raised # "" THEN r
        ELSE CASE t = "None" -> [r EXCEPT !.raised = "TypeError"]
          [] t = "Block" ->
                With(resolve_list(begin_scope(r), item.statements), LAMBDA b :
                    IF b.raised # "" THEN b ELSE end_scope(b))
          [] t = "Class" -> r_visit_class_stmt(r, item)
          [] t = "Expression" -> resolve(r, item.expression)
          [] t = "If" -> r_visit_if_stmt(r, item)
          [] t = "Print" -> resolve(r, item.expression)
          [] t = "Return" -> r_visit_return_stmt(r, item)
          [] t = "While" -> r_visit_while_stmt(r, item)
          [] t = "Function" -> r_visit_function_stmt(r, item)
          [] t = "Var" -> resolve_vars(r, item.variables)
          [] t = "Assign" ->
                With(resolve(r, item.value), LAMBDA v :
                    IF v.raised # "" THEN v ELSE resolve_local(v, item, item.name))
          [] t \in {"Binary", "Logical", "Comma"} -> resolve_list(r, <<item.left, item.right>>)
          [] t = "Call" -> resolve_list(resolve(r, item.callee), item.arguments)
          [] t = "Get" -> resolve(r, item.item)
          [] t = "Grouping" -> resolve(r, item.expression)
          [] t = "Literal" -> r
          [] t = "Set" -> resolve_list(r, <<item.value, item.item>>)
          [] t = "Super" -> r_visit_super_expr(r, item)
          [] t = "This" -> r_visit_this_expr(r, item)
          [] t = "Unary" -> resolve(r, item.right)
          [] t = "Variable" -> r_visit_variable_expr(r, item)
          [] t = "Conditional" ->
                With(resolve_list(r, <<item.condition, item.then_expression>>), LAMBDA c :
                    IF c.raised # "" THEN c ELSE resolve(c, item.else_expression)))

(***************************************************************************)
(* Runtime values.  Besides nil, booleans, numbers and strings: the native *)
(* clock, LoxFunction objects, and syntax nodes (visit_grouping_expr hands *)
(* back the node it holds).  Environments live in a heap (envs) and are    *)
(* named by their index; 0 stands for None.                                *)
(***************************************************************************)
Clock == [k |-> "native"]

LoxFunction(decl, closure, is_initializer) ==
    [k |-> "function", declaration |-> decl, closure |-> closure,
     is_initializer |-> is_initializer]

ExprObject(node) == [k |-> "expr", node |-> node]

\* LoxClass: superclass is a class or None, methods maps a name to its LoxFunction
LoxClass(name, superclass, methods) ==
    [k |-> "class", name |-> name, superclass |-> superclass, methods |-> methods]

\* a LoxInstance: its class, and the place of its fields among the instances
\* the interpreter has made
LoxInstance(cls, ref) == [k |-> "instance", cls |-> cls, ref |-> ref]

\* time() / 1000 at the moment of the call
ClockReading == Num(1, 1)

EmptyDict == [name \in {} |-> None]

Environment(enclosing) == [values |-> EmptyDict, enclosing |-> enclosing]

\* the state of an Interpreter: global_env is envs[1], the native clock is
\* defined in it; out is what the evaluation printed on sys.stdout
Interpreter ==
    [envs |-> <<[values |-> (<<"c", "l", "o", "c", "k">> :> Clock), enclosing |-> 0]>>,
     env |-> 1, local_env |-> EmptyDict, out |-> <<>>, instances |-> <<>>]

global_env == 1

isinstance_float(v) == v.k = "num"

isinstance_str(v) == v.k = "str"

isinstance_bool(v) == v.k = "bool"

isinstance_LoxCallable(v) == v.k \in {"native", "function", "class"}

\* isinstance(superclass, LoxClass) answering True for every value
isinstance_LoxClass_of_any_value(v) == TRUE

isinstance_LoxClass(v) == v.k = "class"

isinstance_LoxInstance(v) == v.k = "instance"

(***************************************************************************)
(* The outcome of evaluating or executing: the interpreter afterwards, the *)
(* value produced, and what is propagating ("" for a normal end,           *)
(* "LoxRuntimeError", "Return", or the name of another Python exception).  *)
(***************************************************************************)
NoError == [line |-> 0, message |-> ""]

Done(st, value) == [st |-> st, value |-> value, signal |-> "", error |-> NoError]

LoxRuntimeError(st, token, message) ==
    [st |-> st, value |-> None, signal |-> "LoxRuntimeError",
     error |-> [line |-> token.line, message |-> message]]

Return(st, value) == [st |-> st, value |-> value, signal |-> "Return", error |-> NoError]

Raise(st, exception) == [st |-> st, value |-> None, signal |-> exception, error |-> NoError]

(***************************************************************************)
(* Environment                                                             *)
(***************************************************************************)
\* Environment.define on the environment e
env_define(st, e, name, value) ==
    [st EXCEPT !.envs[e].values = (name :> value) @@ @]

\* Environment.ancestor; -1 when the walk steps through None
RECURSIVE ancestor(_, _, _)
ancestor(st, e, distance) ==
    IF distance = 0 THEN e
    ELSE IF e = 0 THEN -1
    ELSE ancestor(st, st.envs[e].enclosing, distance - 1)

\* get_at without the walk of ancestor: the name is read in the environment e
get_at_without_ancestor(st, e, distance, name) ==
    IF name \notin DOMAIN st.envs[e].values THEN Raise(st, "KeyError")
    ELSE Done(st, st.envs[e].values[name])

get_at(st, e, distance, name) ==
    With(ancestor(st, e, distance), LAMBDA a :
        IF a <= 0 THEN Raise(st, "AttributeError")
        ELSE IF name \notin DOMAIN st.envs[a].values THEN Raise(st, "KeyError")
        ELSE Done(st, st.envs[a].values[name]))

assign_at(st, e, distance, name, value) ==
    With(ancestor(st, e, distance), LAMBDA a :
        IF a <= 0 THEN Raise(st, "AttributeError")
        ELSE Done(env_define(st, a, name.lexeme, value), None))

RECURSIVE env_get(_, _, _)
env_get(st, e, name) ==
    IF name.lexeme \in DOMAIN st.envs[e].values
    THEN Done(st, st.envs[e].values[name.lexeme])
    ELSE IF st.envs[e].enclosing # 0 THEN env_get(st, st.envs[e].enclosing, name)
    ELSE LoxRuntimeError(st, name, "undefined variable")

RECURSIVE env_assign(_, _, _, _)
env_assign(st, e, name, value) ==
    IF name.lexeme \in DOMAIN st.envs[e].values
    THEN Done(env_define(st, e, name.lexeme, value), None)
    ELSE IF st.envs[e].enclosing # 0 THEN env_assign(st, st.envs[e].enclosing, name, value)
    ELSE LoxRuntimeError(st, name, "undefined variable")

(***************************************************************************)
(* Interpreter helpers                                                     *)
(***************************************************************************)
\* `if not item` is Python's falsiness: None, False, 0.0 and "" are false
is_truthy(item) ==
    IF \/ item.k = "nil"
       \/ (item.k = "bool" /\ item.v = FALSE)
       \/ (item.k = "num" /\ item.n = 0)
       \/ (item.k = "str" /\ item.v = <<>>)
    THEN FALSE
    ELSE IF isinstance_bool(item) THEN item.v
    ELSE TRUE

\* the characters of codes 32..95 and 97..126 (a string cannot hold code 96)
AsciiLow ==
    <<" ", "!", QUOTE, "#", "$", "%", "&", "'", "(", ")", "*", "+", ",", "-", ".", "/",
      "0", "1", "2", "3", "4", "5", "6", "7", "8", "9", ":", ";", "<", "=", ">", "?",
      "@", "A", "B", "C", "D", "E", "F", "G", "H", "I", "J", "K", "L", "M", "N", "O",
      "P", "Q", "R", "S", "T", "U", "V", "W", "X", "Y", "Z", "[", "\\", "]", "^", "_">>

AsciiHigh ==
    <<"a", "b", "c", "d", "e", "f", "g", "h", "i", "j", "k", "l", "m", "n", "o",
      "p", "q", "r", "s", "t", "u", "v", "w", "x", "y", "z", "{", "|", "}", "~">>

\* ord(c); control characters sort before the printable ones
ord(c) ==
    IF \E i \in 1..Len(AsciiLow) : AsciiLow[i] = c
    THEN 31 + (CHOOSE i \in 1..Len(AsciiLow) : AsciiLow[i] = c)
    ELSE IF \E i \in 1..Len(AsciiHigh) : AsciiHigh[i] = c
    THEN 96 + (CHOOSE i \in 1..Len(AsciiHigh) : AsciiHigh[i] = c)
    ELSE IF c = "\t" THEN 9 ELSE IF c = NL THEN 10 ELSE 13

\* Python's a < b on strings
RECURSIVE str_lt(_, _)
str_lt(a, b) ==
    IF b = <<>> THEN FALSE
    ELSE IF a = <<>> THEN TRUE
    ELSE IF Head(a) = Head(b) THEN str_lt(Tail(a), Tail(b))
    ELSE ord(Head(a)) < ord(Head(b))

num_lt(a, b) == a.n * b.d < b.n * a.d

\* the functions of module operator handed to perform_operation, on two
\* floats or on two strings
apply_operator(op, l, r) ==
    With(IF l.k = "num" THEN num_lt(l, r) ELSE str_lt(l.v, r.v), LAMBDA lt :
        With(IF l.k = "num" THEN num_lt(r, l) ELSE str_lt(r.v, l.v), LAMBDA gt :
        CASE op = "gt" -> Bool(gt)
          [] op = "ge" -> Bool(~lt)
          [] op = "lt" -> Bool(lt)
          [] op = "le" -> Bool(~gt)
          [] op = "ne" -> Bool(l # r)
          [] op = "eq" -> Bool(l = r)
          [] op = "sub" -> Num(l.n * r.d - r.n * l.d, l.d * r.d)
          [] op = "mul" -> Num(l.n * r.n, l.d * r.d)
          [] op = "truediv" -> IF r.n < 0 THEN Num(-(l.n * r.d), l.d * (-r.n))
                               ELSE Num(l.n * r.d, l.d * r.n)
          [] op = "add" -> IF l.k = "num" THEN Num(l.n * r.d + r.n * l.d, l.d * r.d)
                           ELSE Str(l.v \o r.v)))

\* the operator function and the operand types visit_binary_expr selects
BinaryOperator(token_type) ==
    CASE token_type = "GREATER" -> "gt"
      [] token_type = "GREATER_EQUAL" -> "ge"
      [] token_type = "LESSER" -> "lt"
      [] token_type = "LESSER_EQUAL" -> "lt"
      [] token_type = "BANG_EQUAL" -> "ne"
      [] token_type = "EQUAL_EQUAL" -> "eq"
      [] token_type = "MINUS" -> "sub"
      [] token_type = "SLASH" -> "truediv"
      [] token_type = "STAR" -> "mul"
      [] token_type = "PLUS" -> "add"

\* OperandTypes with OperandType.NUMBER handed to the comparisons as well
OperandTypes_numbers_for_comparisons(token_type) ==
    IF token_type \in {"PLUS", "BANG_EQUAL", "EQUAL_EQUAL"} THEN {"NUMBER", "STRING"}
    ELSE {"NUMBER"}

OperandTypes(token_type) ==
    IF token_type \in {"MINUS", "SLASH", "STAR"} THEN {"NUMBER"} ELSE {"NUMBER", "STRING"}

RECURSIVE NatDigits(_)
NatDigits(n) ==
    IF n < 10 THEN <<AsciiLow[17 + n]>> ELSE Append(NatDigits(n \div 10), AsciiLow[17 + (n % 10)])

\* the digits of the fraction r / d (0 <= r < d), at most 16 of them
RECURSIVE FractionDigits(_, _, _)
FractionDigits(r, d, places) ==
    IF r = 0 \/ places = 0 THEN <<>>
    ELSE <<AsciiLow[17 + ((10 * r) \div d)]>> \o FractionDigits((10 * r) % d, d, places - 1)

\* str(float) with a trailing ".0" removed
float_text(v) ==
    With(Abs(v.n), LAMBDA a :
        With(IF v.n < 0 THEN <<"-">> ELSE <<>>, LAMBDA sign :
        IF a % v.d = 0 THEN sign \o NatDigits(a \div v.d)
        ELSE sign \o NatDigits(a \div v.d) \o <<".">> \o FractionDigits(a % v.d, v.d, 16)))

\* the line print() writes for stringify(item)
stringify(item) ==
    CASE item.k = "nil" -> [kind |-> "text", text |-> <<"n", "i", "l">>]
      [] item.k = "num" -> [kind |-> "text", text |-> float_text(item)]
      [] item.k = "bool" -> [kind |-> "text",
                             text |-> IF item.v THEN <<"T", "r", "u", "e">>
                                      ELSE <<"F", "a", "l", "s", "e">>]
      [] item.k = "str" -> [kind |-> "text", text |-> item.v]
      [] item.k = "native" -> [kind |-> "text", text |-> <<"<native fn>">>]
      [] item.k = "function" -> [kind |-> "function", text |-> item.declaration.name.lexeme]
      [] item.k = "expr" -> [kind |-> "object", text |-> <<item.node.type>>]
      [] item.k = "class" -> [kind |-> "text", text |-> item.name]
      [] item.k = "instance" -> [kind |-> "text", text |-> item.cls.name \o <<" ", "i", "n", "s", "t", "a", "n", "c", "e">>]

print(st, item) == [st EXCEPT !.out = Append(@, item)]

(***************************************************************************)
(* Interpreter: evaluate and execute                                       *)
(***************************************************************************)
RECURSIVE evaluate(_, _), evaluate_arguments(_, _, _), execute(_, _),
          execute_statements(_, _), execute_block(_, _, _), function_call(_, _, _),
          bind_parameters(_, _, _, _), visit_while_stmt(_, _), visit_var_stmt(_, _),
          class_call(_, _, _), class_methods(_, _, _),
          visit_while_stmt_body_first(_, _)

\* look_up_variable without the resolver's distances: the name is searched
\* from the current environment outwards
look_up_variable_dynamic(st, name, expr) == env_get(st, st.env, name)

look_up_variable(st, name, expr) ==
    IF expr.id \in DOMAIN st.local_env
    THEN get_at(st, st.env, st.local_env[expr.id], name.lexeme)
    ELSE env_get(st, global_env, name)

visit_assign_expr(st, expr) ==
    With(evaluate(st, expr.value), LAMBDA value :
        With(IF expr.id \in DOMAIN value.st.local_env
             THEN assign_at(value.st, value.st.env, value.st.local_env[expr.id],
                            expr.name, value.value)
             ELSE env_assign(value.st, global_env, expr.name, value.value), LAMBDA a :
        IF value.signal # "" THEN value
        ELSE IF a.signal # "" THEN a
        ELSE Done(a.st, value.value)))

perform_operation(st, op, expr, operand_type) ==
    With(evaluate(st, expr.left), LAMBDA l :
        With(evaluate(l.st, expr.right), LAMBDA r :
        IF l.signal # "" THEN l
        ELSE IF r.signal # "" THEN r
        ELSE IF "NUMBER" \in operand_type /\ isinstance_float(l.value)
                /\ isinstance_float(r.value)
        THEN IF op = "truediv" /\ r.value.n = 0 THEN Raise(r.st, "ZeroDivisionError")
             ELSE Done(r.st, apply_operator(op, l.value, r.value))
        ELSE IF "STRING" \in operand_type /\ isinstance_str(l.value)
                /\ isinstance_str(r.value)
        THEN Done(r.st, apply_operator(op, l.value, r.value))
        ELSE LoxRuntimeError(r.st, expr.operator,
               IF operand_type = {"NUMBER", "STRING"}
               THEN "operands must be either both numbers or both strings"
               ELSE IF "STRING" \notin operand_type
               THEN "operands must both be numbers"
               ELSE "operands must both be strings")))

visit_binary_expr(st, expr) ==
    With(expr.operator.token_type, LAMBDA token_type :
        With(perform_operation(st, BinaryOperator(token_type), expr,
                               OperandTypes(token_type)), LAMBDA r :
        IF token_type = "SLASH" /\ r.signal = "ZeroDivisionError"
        THEN LoxRuntimeError(r.st, expr.operator, "cannot divide by zero")
        ELSE r))

\* the loop over expression.arguments; values are the arguments so far
evaluate_arguments(st, arguments, values) ==
    IF arguments = <<>> THEN Done(st, values)
    ELSE With(evaluate(st, Head(arguments)), LAMBDA a :
             IF a.signal # "" THEN a
             ELSE evaluate_arguments(a.st, Tail(arguments), Append(values, a.value)))

\* LoxClass.find_method; None when no class of the lineage has the name
RECURSIVE find_method(_, _)
find_method(cls, name) ==
    IF name \in DOMAIN cls.methods THEN cls.methods[name]
    ELSE IF cls.superclass # None THEN find_method(cls.superclass, name)
    ELSE None

\* LoxFunction.bind defining "this" in the closure itself and returning the
\* function as it is
bind_in_closure(st, function, instance) ==
    Done(env_define(st, function.closure, <<"t", "h", "i", "s">>, instance), function)

\* LoxFunction.bind: a new environment around the closure defines "this"
bind(st, function, instance) ==
    With(Len(st.envs) + 1, LAMBDA env :
        Done(env_define([st EXCEPT !.envs = Append(@, Environment(function.closure))],
                        env, <<"t", "h", "i", "s">>, instance),
             LoxFunction(function.declaration, env, function.is_initializer)))

\* LoxInstance.get
instance_get(st, item, name) ==
    IF name.lexeme \in DOMAIN st.instances[item.ref]
    THEN Done(st, st.instances[item.ref][name.lexeme])
    ELSE With(find_method(item.cls, name.lexeme), LAMBDA method :
             IF method # None THEN bind(st, method, item)
             ELSE LoxRuntimeError(st, name, "undefined property"))

\* LoxInstance.set
instance_set(st, item, name, value) ==
    [st EXCEPT !.instances[item.ref] = (name :> value) @@ @]

arity(callee) ==
    IF callee.k = "native" THEN 0
    ELSE IF callee.k = "class"
    THEN With(find_method(callee, <<"i", "n", "i", "t">>), LAMBDA initializer :
             IF initializer = None THEN 0 ELSE Len(initializer.declaration.params))
    ELSE Len(callee.declaration.params)

visit_call_expr(st, expr) ==
    With(evaluate(st, expr.callee), LAMBDA callee :
        With(evaluate_arguments(callee.st, expr.arguments, <<>>), LAMBDA arguments :
        IF callee.signal # "" THEN callee
        ELSE IF arguments.signal # "" THEN arguments
        ELSE IF ~isinstance_LoxCallable(callee.value)
        THEN LoxRuntimeError(arguments.st, expr.paren, "can only call functions and classes")
        ELSE IF Len(arguments.value) # arity(callee.value)
        THEN LoxRuntimeError(arguments.st, expr.paren,
               "expected " \o ToString(arity(callee.value)) \o " arguments, but got "
               \o ToString(Len(arguments.value)))
        ELSE IF callee.value.k = "native" THEN Done(arguments.st, ClockReading)
        ELSE IF callee.value.k = "class"
        THEN class_call(arguments.st, callee.value, arguments.value)
        ELSE function_call(arguments.st, callee.value, arguments.value)))

visit_get_expr(st, expr) ==
    With(evaluate(st, expr.item), LAMBDA item :
        IF item.signal # "" THEN item
        ELSE IF isinstance_LoxInstance(item.value)
        THEN instance_get(item.st, item.value, expr.name)
        ELSE LoxRuntimeError(item.st, expr.name, "only instances have properties"))

visit_set_expr(st, expr) ==
    With(evaluate(st, expr.item), LAMBDA item :
        IF item.signal # "" THEN item
        ELSE IF ~isinstance_LoxInstance(item.value)
        THEN LoxRuntimeError(item.st, expr.name, "only instances have fields")
        ELSE With(evaluate(item.st, expr.value), LAMBDA value :
                 IF value.signal # "" THEN value
                 ELSE Done(instance_set(value.st, item.value, expr.name.lexeme, value.value),
                           value.value)))

\* visit_super_expr starting at the superclass of the class of `this`
visit_super_expr_of_runtime_class(st, expr) ==
    IF expr.id \notin DOMAIN st.local_env THEN Raise(st, "KeyError")
    ELSE With(get_at(st, st.env, st.local_env[expr.id] - 1, <<"t", "h", "i", "s">>),
              LAMBDA item :
        IF item.signal # "" THEN item
        ELSE With(find_method(item.value.cls.superclass, expr.method.lexeme), LAMBDA method :
        IF method = None THEN LoxRuntimeError(st, expr.method, "undefined property")
        ELSE bind(st, method, item.value)))

\* local_env[expression] raises KeyError for an expression the resolver gave
\* no distance; the two asserts raise AssertionError
visit_super_expr(st, expr) ==
    IF expr.id \notin DOMAIN st.local_env THEN Raise(st, "KeyError")
    ELSE With(get_at(st, st.env, st.local_env[expr.id], <<"s", "u", "p", "e", "r">>),
              LAMBDA superclass :
        IF superclass.signal # "" THEN superclass
        ELSE IF ~isinstance_LoxClass(superclass.value) THEN Raise(st, "AssertionError")
        ELSE With(get_at(st, st.env, st.local_env[expr.id] - 1, <<"t", "h", "i", "s">>),
                  LAMBDA item :
        IF item.signal # "" THEN item
        ELSE IF ~isinstance_LoxInstance(item.value) THEN Raise(st, "AssertionError")
        ELSE With(find_method(superclass.value, expr.method.lexeme), LAMBDA method :
        IF method = None THEN LoxRuntimeError(st, expr.method, "undefined property")
        ELSE bind(st, method, item.value))))

visit_logical_expr(st, expr) ==
    With(evaluate(st, expr.left), LAMBDA left :
        IF left.signal # "" THEN left
        ELSE IF expr.operator.token_type = "OR"
        THEN IF is_truthy(left.value) THEN left ELSE evaluate(left.st, expr.right)
        ELSE IF ~is_truthy(left.value) THEN left ELSE evaluate(left.st, expr.right))

visit_unary_expr(st, expr) ==
    With(evaluate(st, expr.right), LAMBDA right :
        IF right.signal # "" THEN right
        ELSE IF expr.operator.token_type = "MINUS"
        THEN IF isinstance_float(right.value)
             THEN Done(right.st, Num(-right.value.n, right.value.d))
             ELSE LoxRuntimeError(right.st, expr.operator, "operand must be a number")
        ELSE Done(right.st, Bool(~is_truthy(right.value))))

visit_comma_expr(st, expr) ==
    With(evaluate(st, expr.left), LAMBDA left :
        IF left.signal # "" THEN left ELSE evaluate(left.st, expr.right))

visit_conditional_expr(st, expr) ==
    With(evaluate(st, expr.condition), LAMBDA condition :
        IF condition.signal # "" THEN condition
        ELSE IF is_truthy(condition.value) THEN evaluate(condition.st, expr.then_expression)
        ELSE evaluate(condition.st, expr.else_expression))

\* expression.accept(self)
evaluate(st, expr) ==
    With(expr.type, LAMBDA t :
        CASE t = "Assign" -> visit_assign_expr(st, expr)
          [] t = "Binary" -> visit_binary_expr(st, expr)
          [] t = "Call" -> visit_call_expr(st, expr)
          [] t = "Get" -> visit_get_expr(st, expr)
          [] t = "Set" -> visit_set_expr(st, expr)
          [] t = "Super" -> visit_super_expr(st, expr)
          [] t = "Grouping" -> Done(st, ExprObject(expr.expression))
          [] t = "Literal" -> Done(st, expr.value)
          [] t = "Logical" -> visit_logical_expr(st, expr)
          [] t = "This" -> look_up_variable(st, expr.keyword, expr)
          [] t = "Unary" -> visit_unary_expr(st, expr)
          [] t = "Variable" -> look_up_variable(st, expr.name, expr)
          [] t = "Comma" -> visit_comma_expr(st, expr)
          [] t = "Conditional" -> visit_conditional_expr(st, expr))

\* the loop `for parameter, argument in zip(...)` of LoxFunction.call
bind_parameters(st, e, params, arguments) ==
    IF params = <<>> \/ arguments = <<>> THEN st
    ELSE bind_parameters(env_define(st, e, Head(params).lexeme, Head(arguments)),
                         e, Tail(params), Tail(arguments))

\* LoxFunction.call without the two tests of is_initializer
function_call_of_any_function(st, function, arguments) ==
    With(Len(st.envs) + 1, LAMBDA env :
        With([st EXCEPT !.envs = Append(@, Environment(function.closure))], LAMBDA s1 :
        With(bind_parameters(s1, env, function.declaration.params, arguments), LAMBDA s2 :
        With(execute_block(s2, function.declaration.body, env), LAMBDA b :
        IF b.signal = "Return" THEN Done(b.st, b.value)
        ELSE IF b.signal # "" THEN b
        ELSE Done(b.st, None)))))

\* LoxFunction.call
function_call(st, function, arguments) ==
    With(Len(st.envs) + 1, LAMBDA env :
        With([st EXCEPT !.envs = Append(@, Environment(function.closure))], LAMBDA s1 :
        With(bind_parameters(s1, env, function.declaration.params, arguments), LAMBDA s2 :
        With(execute_block(s2, function.declaration.body, env), LAMBDA b :
        IF b.signal = "Return"
        THEN IF function.is_initializer
             THEN get_at(b.st, function.closure, 0, <<"t", "h", "i", "s">>)
             ELSE Done(b.st, b.value)
        ELSE IF b.signal # "" THEN b
        ELSE IF function.is_initializer
        THEN get_at(b.st, function.closure, 0, <<"t", "h", "i", "s">>)
        ELSE Done(b.st, None)))))

\* LoxClass.call: the instance starts with no field
class_call(st, cls, arguments) ==
    With(LoxInstance(cls, Len(st.instances) + 1), LAMBDA instance :
        With(find_method(cls, <<"i", "n", "i", "t">>), LAMBDA initializer :
        With([st EXCEPT !.instances = Append(@, EmptyDict)], LAMBDA s1 :
        IF initializer = None THEN Done(s1, instance)
        ELSE With(bind(s1, initializer, instance), LAMBDA bound :
                 With(function_call(bound.st, bound.value, arguments), LAMBDA c :
                 IF c.signal # "" THEN c ELSE Done(c.st, instance))))))

\* the loop of execute_block; a None statement is skipped
execute_statements(st, stmts) ==
    IF stmts = <<>> THEN Done(st, None)
    ELSE IF Head(stmts).type = "None" THEN execute_statements(st, Tail(stmts))
    ELSE With(execute(st, Head(stmts)), LAMBDA x :
             IF x.signal # "" THEN x ELSE execute_statements(x.st, Tail(stmts)))

\* execute_block without `finally`: the environment is put back only when
\* the statements end normally
execute_block_without_finally(st, stmts, env) ==
    With(st.env, LAMBDA previous :
        With(execute_statements([st EXCEPT !.env = env], stmts), LAMBDA x :
        IF x.signal = "" THEN [x EXCEPT !.st.env = previous] ELSE x))

\* try: self.env = env; ... finally: self.env = previous
execute_block(st, stmts, env) ==
    With(st.env, LAMBDA previous :
        With(execute_statements([st EXCEPT !.env = env], stmts), LAMBDA x :
        [x EXCEPT !.st.env = previous]))

visit_if_stmt(st, stmt) ==
    With(evaluate(st, stmt.condition), LAMBDA condition :
        IF condition.signal # "" THEN condition
        ELSE IF is_truthy(condition.value) THEN execute(condition.st, stmt.then_branch)
        ELSE IF stmt.else_branch.type # "None" THEN execute(condition.st, stmt.else_branch)
        ELSE Done(condition.st, None))

visit_print_stmt(st, stmt) ==
    With(evaluate(st, stmt.expression), LAMBDA value :
        IF value.signal # "" THEN value
        ELSE Done(print(value.st, stringify(value.value)), None))

visit_return_stmt(st, stmt) ==
    IF stmt.value.type # "None"
    THEN With(evaluate(st, stmt.value), LAMBDA value :
             IF value.signal # "" THEN value ELSE Return(value.st, value.value))
    ELSE Return(st, None)

\* a loop that executes its body before it tests its condition
visit_while_stmt_body_first(st, stmt) ==
    With(execute(st, stmt.body), LAMBDA body :
        With(evaluate(body.st, stmt.condition), LAMBDA condition :
        IF body.signal # "" THEN body
        ELSE IF condition.signal # "" THEN condition
        ELSE IF is_truthy(condition.value)
        THEN visit_while_stmt_body_first(condition.st, stmt)
        ELSE Done(condition.st, None)))

visit_while_stmt(st, stmt) ==
    With(evaluate(st, stmt.condition), LAMBDA condition :
        IF condition.signal # "" THEN condition
        ELSE IF is_truthy(condition.value)
        THEN With(execute(condition.st, stmt.body), LAMBDA body :
                 IF body.signal # "" THEN body ELSE visit_while_stmt(body.st, stmt))
        ELSE Done(condition.st, None))

\* the loop of visit_var_stmt over the (name, initializer) pairs left
visit_var_stmt(st, variables) ==
    IF variables = <<>> THEN Done(st, None)
    ELSE With(Head(variables)[1], LAMBDA name :
             With(Head(variables)[2], LAMBDA initializer :
             With(IF initializer.type # "None" THEN evaluate(st, initializer)
                      ELSE Done(st, None), LAMBDA value :
             IF value.signal # "" THEN value
             ELSE visit_var_stmt(env_define(value.st, value.st.env, name.lexeme, value.value),
                                 Tail(variables)))))

visit_function_stmt(st, stmt) ==
    Done(env_define(st, st.env, stmt.name.lexeme, LoxFunction(stmt, st.env, FALSE)), None)

visit_block_stmt(st, stmt) ==
    execute_block([st EXCEPT !.envs = Append(@, Environment(st.env))],
                  stmt.statements, Len(st.envs) + 1)

\* the loop over statement.methods: a later method of the same name replaces
\* the earlier one
class_methods(methods, env, table) ==
    IF methods = <<>> THEN table
    ELSE class_methods(Tail(methods), env,
           (Head(methods).name.lexeme :>
               LoxFunction(Head(methods), env,
                           Head(methods).name.lexeme = <<"i", "n", "i", "t">>)) @@ table)

visit_class_stmt(st, stmt) ==
    With(IF stmt.superclass.type # "None" THEN evaluate(st, stmt.superclass)
         ELSE Done(st, None), LAMBDA superclass :
        IF superclass.signal # "" THEN superclass
        ELSE IF stmt.superclass.type # "None" /\ ~isinstance_LoxClass(superclass.value)
        THEN LoxRuntimeError(superclass.st, stmt.superclass.name, "superclass must be a class")
        ELSE With(env_define(superclass.st, superclass.st.env, stmt.name.lexeme, None),
                  LAMBDA s1 :
        With(IF stmt.superclass.type # "None"
             THEN env_define([s1 EXCEPT !.envs = Append(@, Environment(s1.env)),
                                        !.env = Len(s1.envs) + 1],
                             Len(s1.envs) + 1, <<"s", "u", "p", "e", "r">>, superclass.value)
             ELSE s1, LAMBDA s2 :
        With(LoxClass(stmt.name.lexeme, superclass.value,
                      class_methods(stmt.methods, s2.env, EmptyDict)), LAMBDA cls :
        With(IF stmt.superclass.type # "None"
             THEN [s2 EXCEPT !.env = s2.envs[s2.env].enclosing] ELSE s2, LAMBDA s3 :
        With(env_assign(s3, s3.env, stmt.name, cls), LAMBDA a :
        IF a.signal # "" THEN a ELSE Done(a.st, None)))))))

\* statement.accept(self); executing None raises AttributeError
execute(st, stmt) ==
    With(stmt.type, LAMBDA t :
        CASE t = "None" -> Raise(st, "AttributeError")
          [] t = "Block" -> visit_block_stmt(st, stmt)
          [] t = "Class" -> visit_class_stmt(st, stmt)
          [] t = "Expression" ->
                With(evaluate(st, stmt.expression), LAMBDA value :
                    IF value.signal # "" THEN value ELSE Done(value.st, None))
          [] t = "Function" -> visit_function_stmt(st, stmt)
          [] t = "If" -> visit_if_stmt(st, stmt)
          [] t = "Print" -> visit_print_stmt(st, stmt)
          [] t = "Return" -> visit_return_stmt(st, stmt)
          [] t = "While" -> visit_while_stmt(st, stmt)
          [] t = "Var" -> visit_var_stmt(st, stmt.variables))

(***************************************************************************)
(* The scanner on its own: every source of at most MaxLen characters over  *)
(* ScanAlphabet, one action per call of scan_token.                        *)
(***************************************************************************)
ScanAlphabet == {"/", "*", QUOTE, NL, "a", "1", ".", "@", "="}

RECURSIVE Strings(_, _)
Strings(alphabet, n) ==
    IF n = 0 THEN {<<>>}
    ELSE LET shorter == Strings(alphabet, n - 1)
         IN  shorter \cup {Append(w, c) : w \in {x \in shorter : Len(x) = n - 1}, c \in alphabet}

TheScanner ==
    [source |-> source, tokens |-> tokens, start |-> start, current |-> current,
     line |-> line, errors |-> <<>>, raised |-> ""]

\* the scanner's fields and the diagnostic state after a piece of scanning
ScannerBecomes(s) ==
    /\ start' = s.start
    /\ current' = s.current
    /\ line' = s.line
    /\ tokens' = s.tokens
    /\ stderr' = stderr \o s.errors
    /\ had_error' = (had_error \/ s.errors # <<>>)

TheParser ==
    [tokens |-> tokens, current |-> p_current, next_id |-> next_id, errors |-> <<>>,
     raised |-> FALSE, node |-> NoneNode]

InitIdle ==
    /\ start = 0 /\ current = 0 /\ line = 1 /\ tokens = <<>>
    /\ p_current = 0 /\ statements = <<>> /\ next_id = 1
    /\ had_error = FALSE /\ had_runtime_error = FALSE
    /\ stdout = <<>> /\ stderr = <<>>
    /\ exit_code = -1
    /\ interpreter = Interpreter /\ index = 0
    /\ stages = <<>>
    /\ lines_read = 0

InitScan ==
    /\ mode = "scan"
    /\ pc = "scan"
    /\ source \in Strings(ScanAlphabet, MaxLen)
    /\ InitIdle

\* one turn of the loop of scan_tokens; an IndexError leaves scan_tokens
ScanToken ==
    /\ pc = "scan"
    /\ ~is_at_end(TheScanner)
    /\ LET s == scan_step(TheScanner)
       IN  /\ ScannerBecomes(s)
           /\ pc' = IF s.raised # "" THEN "raised" ELSE "scan"
    /\ UNCHANGED <<mode, source, p_current, statements, next_id, had_runtime_error,
                   stdout, exit_code, interpreter, index, stages, lines_read>>

\* the end of scan_tokens; run then builds Parser(tokens) and calls parse
ScanEOF ==
    /\ pc = "scan"
    /\ is_at_end(TheScanner)
    /\ ScannerBecomes(scan_eof(TheScanner))
    /\ pc' = IF mode = "scan" THEN "scanned" ELSE "parse"
    /\ stages' = IF mode = "scan" THEN stages ELSE Append(stages, "parse")
    /\ p_current' = 0
    /\ statements' = <<>>
    /\ UNCHANGED <<mode, source, next_id, had_runtime_error,
                   stdout, exit_code, interpreter, index, lines_read>>

NextScan == ScanToken \/ ScanEOF

SpecScan == InitScan /\ [][NextScan]_vars

(***************************************************************************)
(* The parser on its own: the token lists of every source of at most       *)
(* MaxParseLen characters over ParseAlphabet and of the ParsePrograms, one *)
(* action per call of declaration.                                         *)
(***************************************************************************)
ParseAlphabet == {"a", "1", "-", "!", ",", ".", "=", ";"}

ParsePrograms ==
    {<<"a", "(", ")">>,
     <<"a", "(", "1", ")">>,
     <<"a", "(", "a", ")", ";">>,
     <<"(", "a", ")", ";">>,
     <<"(", "(", "1", ")", ")">>,
     <<"(", "a">>,
     <<"a", "(", "1", ",", "1", ")">>,
     <<"a", "(", "1", ",", "1", ",", "1", ")", ";">>,
     <<"a", "(", ")", "(", ")", ";">>,
     <<"a", ".", "a", ".", "a", ";">>,
     <<"a", "(", ")", ".", "a", "(", ")", "(", "a", ")", ";">>,
     <<"a", "(", ")", ".", "a">>,
     <<"a", ".", "a", "(", ")">>,
     <<"a", ".", "a", "=", "1", ";">>,
     <<"t", "h", "i", "s", ".", "n", "a", "m", "e", " ", "=", " ", "n", "a", "m", "e", ";">>,
     <<"{", ")", "}">>,
     <<"{", "a", ";", ")", "}">>,
     <<"{", ";">>,
     <<"1", ";", ")">>,
     <<"f", "u", "n", " ", "(">>,
     <<"c", "l", "a", "s", "s", " ", "{">>,
     <<"p", "r", "i", "n", "t">>}

ParseSources == Strings(ParseAlphabet, MaxParseLen) \cup ParsePrograms

InitParse ==
    /\ mode = "parse"
    /\ pc = "parse"
    /\ source \in ParseSources
    /\ LET s == scan_tokens(Scanner(source))
       IN  /\ start = s.start /\ current = s.current /\ line = s.line
           /\ tokens = s.tokens
    /\ p_current = 0 /\ statements = <<>> /\ next_id = 1
    /\ had_error = FALSE /\ had_runtime_error = FALSE
    /\ stdout = <<>> /\ stderr = <<>>
    /\ exit_code = -1
    /\ interpreter = Interpreter /\ index = 0
    /\ stages = <<"parse">>
    /\ lines_read = 0

\* one turn of the loop of parse
ParseDeclaration ==
    /\ pc = "parse"
    /\ ~p_is_at_end(TheParser)
    /\ LET d == declaration(TheParser)
       IN  /\ p_current' = d.current
           /\ next_id' = d.next_id
           /\ statements' = Append(statements, d.node)
           /\ stderr' = stderr \o d.errors
           /\ had_error' = (had_error \/ d.errors # <<>>)
    /\ UNCHANGED <<mode, pc, source, start, current, line, tokens, had_runtime_error,
                   stdout, exit_code, interpreter, index, stages, lines_read>>

\* `if had_error: return` after parse: where run goes next
run_after_parse(error) == IF error THEN "ran" ELSE "resolve"

\* parse returns; run leaves if had_error is set, else builds the Resolver
ParseEnd ==
    /\ pc = "parse"
    /\ p_is_at_end(TheParser)
    /\ pc' = IF mode = "parse" THEN "parsed" ELSE run_after_parse(had_error)
    /\ stages' = IF pc' = "resolve" THEN Append(stages, "resolve") ELSE stages
    /\ UNCHANGED <<mode, source, start, current, line, tokens, p_current, statements,
                   next_id, had_error, had_runtime_error, stdout, stderr, exit_code,
                   interpreter, index, lines_read>>

NextParse == ParseDeclaration \/ ParseEnd

SpecParse == InitParse /\ [][NextParse]_vars

(***************************************************************************)
(* The driver: run_file on a file, or run_prompt on at most MaxLines       *)
(* lines, over the Programs.  Scanning and parsing advance by the actions  *)
(* above; the resolver runs in one action and interpret advances by one    *)
(* top-level statement per action.                                         *)
(***************************************************************************)
\* an empty file
NoStatements ==
    <<>>

\* print 1;
PrintOne ==
    <<"p", "r", "i", "n", "t", " ", "1", ";">>

\* print "a" - 1;
PrintStringMinusOne ==
    <<"p", "r", "i", "n", "t", " ", QUOTE, "a", QUOTE, " ", "-", " ", "1", ";">>

\* var a = 1; print a; print -"a"; print 2;
ErrorAtThirdStatement ==
    <<"v", "a", "r", " ", "a", " ", "=", " ", "1", ";", " ", "p", "r", "i",
      "n", "t", " ", "a", ";", " ", "p", "r", "i", "n", "t", " ", "-", QUOTE,
      "a", QUOTE, ";", " ", "p", "r", "i", "n", "t", " ", "2", ";">>

\* /*
OpenBlockComment ==
    <<"/", "*">>

\* @ +;
StrayCharacter ==
    <<"@", " ", "+", ";">>

\* print 1; print ;
PrintWithoutValue ==
    <<"p", "r", "i", "n", "t", " ", "1", ";", " ", "p", "r", "i", "n", "t",
      " ", ";">>

\* print 1; { var a; }
UnusedLocal ==
    <<"p", "r", "i", "n", "t", " ", "1", ";", " ", "{", " ", "v", "a", "r",
      " ", "a", ";", " ", "}">>

\* fun f(a) { return a; } print f(1); f();
CallWithoutArgument ==
    <<"f", "u", "n", " ", "f", "(", "a", ")", " ", "{", " ", "r", "e", "t",
      "u", "r", "n", " ", "a", ";", " ", "}", " ", "p", "r", "i", "n", "t",
      " ", "f", "(", "1", ")", ";", " ", "f", "(", ")", ";">>

\* "a" < 1;
CompareStringToNumber ==
    <<QUOTE, "a", QUOTE, " ", "<", " ", "1", ";">>

\* 1 + 1;
AddNumbers ==
    <<"1", " ", "+", " ", "1", ";">>

\* fun f() { print 1; } f() f()
ExpressionsWithoutSemicolon ==
    <<"f", "u", "n", " ", "f", "(", ")", " ", "{", " ", "p", "r", "i", "n",
      "t", " ", "1", ";", " ", "}", " ", "f", "(", ")", " ", "f", "(", ")">>

\* if (0) print 1; if ("") print 2; if (nil) print 3; if (false) print 4;
IfZeroOrEmptyString ==
    <<"i", "f", " ", "(", "0", ")", " ", "p", "r", "i", "n", "t", " ", "1",
      ";", " ", "i", "f", " ", "(", QUOTE, QUOTE, ")", " ", "p", "r", "i",
      "n", "t", " ", "2", ";", " ", "i", "f", " ", "(", "n", "i", "l", ")",
      " ", "p", "r", "i", "n", "t", " ", "3", ";", " ", "i", "f", " ", "(",
      "f", "a", "l", "s", "e", ")", " ", "p", "r", "i", "n", "t", " ", "4",
      ";">>

\* print nil == nil;
NilEqualsNil ==
    <<"p", "r", "i", "n", "t", " ", "n", "i", "l", " ", "=", "=", " ", "n",
      "i", "l", ";">>

\* print "a" < "b";
CompareStrings ==
    <<"p", "r", "i", "n", "t", " ", QUOTE, "a", QUOTE, " ", "<", " ", QUOTE,
      "b", QUOTE, ";">>

\* if (1 <= 1) print 1; else print 2;
OneAtMostOne ==
    <<"i", "f", " ", "(", "1", " ", "<", "=", " ", "1", ")", " ", "p", "r",
      "i", "n", "t", " ", "1", ";", " ", "e", "l", "s", "e", " ", "p", "r",
      "i", "n", "t", " ", "2", ";">>

\* print (1 + 2) * 3;
GroupingTimesThree ==
    <<"p", "r", "i", "n", "t", " ", "(", "1", " ", "+", " ", "2", ")", " ",
      "*", " ", "3", ";">>

\* fun f() { print 9; return 2; } print 1 or f(); print nil and f(); print nil or f(); print 0 or f();
ShortCircuit ==
    <<"f", "u", "n", " ", "f", "(", ")", " ", "{", " ", "p", "r", "i", "n",
      "t", " ", "9", ";", " ", "r", "e", "t", "u", "r", "n", " ", "2", ";",
      " ", "}", " ", "p", "r", "i", "n", "t", " ", "1", " ", "o", "r", " ",
      "f", "(", ")", ";", " ", "p", "r", "i", "n", "t", " ", "n", "i", "l",
      " ", "a", "n", "d", " ", "f", "(", ")", ";", " ", "p", "r", "i", "n",
      "t", " ", "n", "i", "l", " ", "o", "r", " ", "f", "(", ")", ";", " ",
      "p", "r", "i", "n", "t", " ", "0", " ", "o", "r", " ", "f", "(", ")",
      ";">>

\* var a = "global"; { fun showA() { print a; } showA(); var a = "block"; showA(); }
ShowA ==
    <<"v", "a", "r", " ", "a", " ", "=", " ", QUOTE, "g", "l", "o", "b",
      "a", "l", QUOTE, ";", " ", "{", " ", "f", "u", "n", " ", "s", "h",
      "o", "w", "A", "(", ")", " ", "{", " ", "p", "r", "i", "n", "t", " ",
      "a", ";", " ", "}", " ", "s", "h", "o", "w", "A", "(", ")", ";", " ",
      "v", "a", "r", " ", "a", " ", "=", " ", QUOTE, "b", "l", "o", "c",
      "k", QUOTE, ";", " ", "s", "h", "o", "w", "A", "(", ")", ";", " ",
      "}">>

\* var a = "global"; { fun showA() { print a; } showA(); var a = "block"; showA(); print a; }
ShowAThenUse ==
    <<"v", "a", "r", " ", "a", " ", "=", " ", QUOTE, "g", "l", "o", "b",
      "a", "l", QUOTE, ";", " ", "{", " ", "f", "u", "n", " ", "s", "h",
      "o", "w", "A", "(", ")", " ", "{", " ", "p", "r", "i", "n", "t", " ",
      "a", ";", " ", "}", " ", "s", "h", "o", "w", "A", "(", ")", ";", " ",
      "v", "a", "r", " ", "a", " ", "=", " ", QUOTE, "b", "l", "o", "c",
      "k", QUOTE, ";", " ", "s", "h", "o", "w", "A", "(", ")", ";", " ",
      "p", "r", "i", "n", "t", " ", "a", ";", " ", "}">>

\* var i = 0; fun count() { i = i + 1; return i; } print count(); print count();
CounterClosure ==
    <<"v", "a", "r", " ", "i", " ", "=", " ", "0", ";", " ", "f", "u", "n",
      " ", "c", "o", "u", "n", "t", "(", ")", " ", "{", " ", "i", " ", "=",
      " ", "i", " ", "+", " ", "1", ";", " ", "r", "e", "t", "u", "r", "n",
      " ", "i", ";", " ", "}", " ", "p", "r", "i", "n", "t", " ", "c", "o",
      "u", "n", "t", "(", ")", ";", " ", "p", "r", "i", "n", "t", " ", "c",
      "o", "u", "n", "t", "(", ")", ";">>

\* print x;
ReadUndefined ==
    <<"p", "r", "i", "n", "t", " ", "x", ";">>

\* x = 1;
AssignUndefined ==
    <<"x", " ", "=", " ", "1", ";">>

\* class A { init(x) { print x; if (x) return; print 0; } } var a = A(nil); print a.init(1); print a.init(nil);
InitTwice ==
    <<"c", "l", "a", "s", "s", " ", "A", " ", "{", " ", "i", "n", "i", "t",
      "(", "x", ")", " ", "{", " ", "p", "r", "i", "n", "t", " ", "x", ";",
      " ", "i", "f", " ", "(", "x", ")", " ", "r", "e", "t", "u", "r", "n",
      ";", " ", "p", "r", "i", "n", "t", " ", "0", ";", " ", "}", " ", "}",
      " ", "v", "a", "r", " ", "a", " ", "=", " ", "A", "(", "n", "i", "l",
      ")", ";", " ", "p", "r", "i", "n", "t", " ", "a", ".", "i", "n", "i",
      "t", "(", "1", ")", ";", " ", "p", "r", "i", "n", "t", " ", "a", ".",
      "i", "n", "i", "t", "(", "n", "i", "l", ")", ";">>

\* class A { m() { print this; } } class B < A {} var m = A().m; var n = B().m; m(); n(); print B().x;
BoundMethods ==
    <<"c", "l", "a", "s", "s", " ", "A", " ", "{", " ", "m", "(", ")", " ",
      "{", " ", "p", "r", "i", "n", "t", " ", "t", "h", "i", "s", ";", " ",
      "}", " ", "}", " ", "c", "l", "a", "s", "s", " ", "B", " ", "<", " ",
      "A", " ", "{", "}", " ", "v", "a", "r", " ", "m", " ", "=", " ", "A",
      "(", ")", ".", "m", ";", " ", "v", "a", "r", " ", "n", " ", "=", " ",
      "B", "(", ")", ".", "m", ";", " ", "m", "(", ")", ";", " ", "n", "(",
      ")", ";", " ", "p", "r", "i", "n", "t", " ", "B", "(", ")", ".", "x",
      ";">>

\* class A { m() { print this; } } class B < A { m() { print 2; } n() { super.m(); super.x; } } class C < B {} C().n();
SuperFromB ==
    <<"c", "l", "a", "s", "s", " ", "A", " ", "{", " ", "m", "(", ")", " ",
      "{", " ", "p", "r", "i", "n", "t", " ", "t", "h", "i", "s", ";", " ",
      "}", " ", "}", " ", "c", "l", "a", "s", "s", " ", "B", " ", "<", " ",
      "A", " ", "{", " ", "m", "(", ")", " ", "{", " ", "p", "r", "i", "n",
      "t", " ", "2", ";", " ", "}", " ", "n", "(", ")", " ", "{", " ", "s",
      "u", "p", "e", "r", ".", "m", "(", ")", ";", " ", "s", "u", "p", "e",
      "r", ".", "x", ";", " ", "}", " ", "}", " ", "c", "l", "a", "s", "s",
      " ", "C", " ", "<", " ", "B", " ", "{", "}", " ", "C", "(", ")", ".",
      "n", "(", ")", ";">>

\* print nil; print 1; print 2.5; print true; print false;
PrintValues ==
    <<"p", "r", "i", "n", "t", " ", "n", "i", "l", ";", " ", "p", "r", "i",
      "n", "t", " ", "1", ";", " ", "p", "r", "i", "n", "t", " ", "2", ".",
      "5", ";", " ", "p", "r", "i", "n", "t", " ", "t", "r", "u", "e", ";",
      " ", "p", "r", "i", "n", "t", " ", "f", "a", "l", "s", "e", ";">>

\* var x = 1; class B < x {} print B;
SuperclassNotAClass ==
    <<"v", "a", "r", " ", "x", " ", "=", " ", "1", ";", " ", "c", "l", "a",
      "s", "s", " ", "B", " ", "<", " ", "x", " ", "{", "}", " ", "p", "r",
      "i", "n", "t", " ", "B", ";">>

\* fun c() { print 0; return true; } fun n() { print 2; return nil(); } for (c(); c(); n()) print 1;
ForClauses ==
    <<"f", "u", "n", " ", "c", "(", ")", " ", "{", " ", "p", "r", "i", "n",
      "t", " ", "0", ";", " ", "r", "e", "t", "u", "r", "n", " ", "t", "r",
      "u", "e", ";", " ", "}", " ", "f", "u", "n", " ", "n", "(", ")", " ",
      "{", " ", "p", "r", "i", "n", "t", " ", "2", ";", " ", "r", "e", "t",
      "u", "r", "n", " ", "n", "i", "l", "(", ")", ";", " ", "}", " ", "f",
      "o", "r", " ", "(", "c", "(", ")", ";", " ", "c", "(", ")", ";", " ",
      "n", "(", ")", ")", " ", "p", "r", "i", "n", "t", " ", "1", ";">>

\* for (var i = 0; i < 0;) print i; print i;
ForInitScope ==
    <<"f", "o", "r", " ", "(", "v", "a", "r", " ", "i", " ", "=", " ", "0",
      ";", " ", "i", " ", "<", " ", "0", ";", ")", " ", "p", "r", "i", "n",
      "t", " ", "i", ";", " ", "p", "r", "i", "n", "t", " ", "i", ";">>

\* fun f() { nil(); } { f(); }
FailInCallInBlock ==
    <<"f", "u", "n", " ", "f", "(", ")", " ", "{", " ", "n", "i", "l", "(",
      ")", ";", " ", "}", " ", "{", " ", "f", "(", ")", ";", " ", "}">>

\* fun f(a) { fun g(b) { print a; print b; } return g; } var g = f(1); g(2);
ClosureOverParameter ==
    <<"f", "u", "n", " ", "f", "(", "a", ")", " ", "{", " ", "f", "u", "n",
      " ", "g", "(", "b", ")", " ", "{", " ", "p", "r", "i", "n", "t", " ",
      "a", ";", " ", "p", "r", "i", "n", "t", " ", "b", ";", " ", "}", " ",
      "r", "e", "t", "u", "r", "n", " ", "g", ";", " ", "}", " ", "v", "a",
      "r", " ", "g", " ", "=", " ", "f", "(", "1", ")", ";", " ", "g", "(",
      "2", ")", ";">>

\* { class A {} class B < A {} print B; } print B;
ClassInBlock ==
    <<"{", " ", "c", "l", "a", "s", "s", " ", "A", " ", "{", "}", " ", "c",
      "l", "a", "s", "s", " ", "B", " ", "<", " ", "A", " ", "{", "}", " ",
      "p", "r", "i", "n", "t", " ", "B", ";", " ", "}", " ", "p", "r", "i",
      "n", "t", " ", "B", ";">>

\* for (;;) nil();
ForNoClauses ==
    <<"f", "o", "r", " ", "(", ";", ";", ")", " ", "n", "i", "l", "(", ")",
      ";">>

\* for (; false; nil()) print 1; print 2;
ForFalse ==
    <<"f", "o", "r", " ", "(", ";", " ", "f", "a", "l", "s", "e", ";", " ",
      "n", "i", "l", "(", ")", ")", " ", "p", "r", "i", "n", "t", " ", "1",
      ";", " ", "p", "r", "i", "n", "t", " ", "2", ";">>

\* the files given to run_file besides the lines typed at the prompt
Scripts ==
    {ExpressionsWithoutSemicolon, IfZeroOrEmptyString, NilEqualsNil,
     CompareStrings, OneAtMostOne, GroupingTimesThree, ShortCircuit,
     ShowA, ShowAThenUse, CounterClosure, ReadUndefined, AssignUndefined,
     InitTwice, BoundMethods, SuperFromB, PrintValues, SuperclassNotAClass,
     ForClauses, ForInitScope, ClosureOverParameter, ClassInBlock,
     ForNoClauses, ForFalse}

Programs ==
    {NoStatements, PrintOne, PrintStringMinusOne, ErrorAtThirdStatement,
     OpenBlockComment, StrayCharacter, PrintWithoutValue, UnusedLocal,
     CallWithoutArgument, CompareStringToNumber, AddNumbers, FailInCallInBlock}

Init ==
    /\ mode \in {"file", "repl"}
    /\ pc = IF mode = "file" THEN "start" ELSE "prompt"
    /\ source = <<>>
    /\ InitIdle

\* run(source) begins: Scanner(source)
RunBegins(text) ==
    /\ source' = text
    /\ start' = 0 /\ current' = 0 /\ line' = 1 /\ tokens' = <<>>
    /\ stages' = <<"scan">>
    /\ lines_read' = lines_read + 1
    /\ pc' = "scan"

\* open or read raises IOError
ReadFileFails ==
    /\ mode = "file" /\ pc = "start"
    /\ stderr' = Append(stderr, [line |-> 0, where |-> "", lexeme |-> <<>>,
                                 message |-> "unable to read file"])
    /\ exit_code' = 65
    /\ pc' = "exited"
    /\ UNCHANGED <<mode, source, start, current, line, tokens, p_current, statements,
                   next_id, had_error, had_runtime_error, stdout, interpreter, index,
                   stages, lines_read>>

ReadFile ==
    /\ mode = "file" /\ pc = "start"
    /\ \E text \in Programs \cup Scripts : RunBegins(text)
    /\ UNCHANGED <<mode, p_current, statements, next_id, had_error, had_runtime_error,
                   stdout, stderr, exit_code, interpreter, index>>

\* input() returns the line (after rstrip and the joining of continued lines)
ReadLine ==
    /\ mode = "repl" /\ pc = "prompt"
    /\ lines_read < MaxLines
    /\ \E text \in Programs : RunBegins(text)
    /\ UNCHANGED <<mode, p_current, statements, next_id, had_error, had_runtime_error,
                   stdout, stderr, exit_code, interpreter, index>>

\* input() raises EOFError: print() and return
ReadEOF ==
    /\ mode = "repl" /\ pc = "prompt"
    /\ stdout' = Append(stdout, [kind |-> "text", text |-> <<>>])
    /\ exit_code' = 0
    /\ pc' = "exited"
    /\ UNCHANGED <<mode, source, start, current, line, tokens, p_current, statements,
                   next_id, had_error, had_runtime_error, stderr, interpreter, index,
                   stages, lines_read>>

\* run without the check of had_error after resolve
run_after_resolve_unchecked(error) == "interpret"

\* `if had_error: return` after resolve: where run goes next
run_after_resolve(error) == IF error THEN "ran" ELSE "interpret"

\* Resolver(interpreter).resolve(statements), then the check of had_error
Resolve ==
    /\ pc = "resolve"
    /\ LET r == resolve_list(Resolver(interpreter.local_env), statements)
       IN  /\ interpreter' = [interpreter EXCEPT !.local_env = r.local_env]
           /\ stderr' = stderr \o r.errors
           /\ had_error' = (had_error \/ r.errors # <<>>)
           /\ pc' = IF r.raised # "" THEN "raised" ELSE run_after_resolve(had_error')
    /\ index' = 0
    /\ stages' = IF pc' = "interpret" THEN Append(stages, "interpret") ELSE stages
    /\ UNCHANGED <<mode, source, start, current, line, tokens, p_current, statements,
                   next_id, had_runtime_error, stdout, exit_code, lines_read>>

\* the body of the loop of interpret
interpret_statement(st, stmt, repl) ==
    IF repl /\ stmt.type = "Expression"
    THEN LET value == evaluate(st, stmt.expression)
         IN  IF value.signal # "" THEN value
             ELSE Done(print(value.st, stringify(value.value)), None)
    ELSE execute(st, stmt)

\* interpret with `except LoxRuntimeError` inside the loop: the loop goes on
interpret_next_continues(signal, i) ==
    IF signal \in {"", "LoxRuntimeError"} THEN [pc |-> "interpret", index |-> i + 1]
    ELSE [pc |-> "raised", index |-> i]

\* where interpret stands after statement i (0-based) ended with signal:
\* `except LoxRuntimeError` is outside the loop, anything else propagates
interpret_next(signal, i) ==
    IF signal = "LoxRuntimeError" THEN [pc |-> "ran", index |-> i]
    ELSE IF signal # "" THEN [pc |-> "raised", index |-> i]
    ELSE [pc |-> "interpret", index |-> i + 1]

\* lox.runtime_error: print(error) writes str(error) on sys.stdout
runtime_error(error) ==
    [kind |-> "LoxRuntimeError", line |-> error.line, message |-> error.message]

Execute ==
    /\ pc = "interpret"
    /\ index < Len(statements)
    /\ LET x == interpret_statement(interpreter, statements[index + 1], mode = "repl")
           next == interpret_next(x.signal, index)
       IN  /\ interpreter' = [x.st EXCEPT !.out = <<>>]
           /\ stdout' = stdout \o x.st.out \o
                        (IF x.signal = "LoxRuntimeError" THEN <<runtime_error(x.error)>>
                         ELSE <<>>)
           /\ had_runtime_error' = (had_runtime_error \/ x.signal = "LoxRuntimeError")
           /\ pc' = next.pc
           /\ index' = next.index
    /\ UNCHANGED <<mode, source, start, current, line, tokens, p_current, statements,
                   next_id, had_error, stderr, exit_code, stages, lines_read>>

\* the loop of interpret is over
InterpretEnd ==
    /\ pc = "interpret"
    /\ index = Len(statements)
    /\ pc' = "ran"
    /\ UNCHANGED <<mode, source, start, current, line, tokens, p_current, statements,
                   next_id, had_error, had_runtime_error, stdout, stderr, exit_code,
                   interpreter, index, stages, lines_read>>

\* the status run_file ends the process with after run returned
exit_status(error, runtime) == IF error THEN 64 ELSE IF runtime THEN 70 ELSE 0

Exit ==
    /\ mode = "file" /\ pc = "ran"
    /\ exit_code' = exit_status(had_error, had_runtime_error)
    /\ pc' = "exited"
    /\ UNCHANGED <<mode, source, start, current, line, tokens, p_current, statements,
                   next_id, had_error, had_runtime_error, stdout, stderr, interpreter,
                   index, stages, lines_read>>

\* run_prompt without `had_error = False`
run_prompt_keeps_had_error(error) == error

\* had_error once run_prompt has executed the statement after run(line, repl=True)
run_prompt_had_error(error) == FALSE

\* run returns to run_prompt, which goes back to the prompt
RunReturns ==
    /\ mode = "repl" /\ pc = "ran"
    /\ had_error' = run_prompt_had_error(had_error)
    /\ pc' = "prompt"
    /\ UNCHANGED <<mode, source, start, current, line, tokens, p_current, statements,
                   next_id, had_runtime_error, stdout, stderr, exit_code, interpreter,
                   index, stages, lines_read>>

\* an exception nothing catches: the traceback on sys.stderr, status 1
Crash ==
    /\ mode \in {"file", "repl"} /\ pc = "raised"
    /\ stderr' = Append(stderr, [line |-> 0, where |-> "Traceback", lexeme |-> <<>>,
                                 message |-> "uncaught exception"])
    /\ exit_code' = 1
    /\ pc' = "exited"
    /\ UNCHANGED <<mode, source, start, current, line, tokens, p_current, statements,
                   next_id, had_error, had_runtime_error, stdout, interpreter, index,
                   stages, lines_read>>

Next ==
    \/ ReadFileFails \/ ReadFile \/ ReadLine \/ ReadEOF
    \/ ScanToken \/ ScanEOF \/ ParseDeclaration \/ ParseEnd
    \/ Resolve \/ Execute \/ InterpretEnd
    \/ Exit \/ RunReturns \/ Crash

Spec == Init /\ [][Next]_vars

(***************************************************************************)
(* Claims about the driver (checked under Spec)                            *)
(***************************************************************************)
IsRuntimeDiagnostic(item) == "kind" \in DOMAIN item /\ item.kind = "LoxRuntimeError"

RECURSIVE RuntimeDiagnostics(_)
RuntimeDiagnostics(stream) ==
    IF stream = <<>> THEN 0
    ELSE (IF IsRuntimeDiagnostic(Head(stream)) THEN 1 ELSE 0) + RuntimeDiagnostics(Tail(stream))

IsPrefix(a, b) == Len(a) <= Len(b) /\ SubSeq(b, 1, Len(a)) = a

Globals(st) == st.envs[global_env].values

\* C1: once a compile error is recorded for a source, no step of that run
\* enters interpret, prints, changes an environment or records a runtime error.
C1_NoEvaluationAfterCompileError ==
    [][(had_error \/ had_error') =>
          /\ pc' # "interpret"
          /\ stdout' = stdout
          /\ interpreter'.envs = interpreter.envs
          /\ had_runtime_error' = had_runtime_error]_vars

\* a file whose first statement prints and whose block has a resolver error
C1_Witness ==
    /\ mode = "file" /\ pc = "exited"
    /\ source = UnusedLocal
    /\ statements[1].type = "Print"
    /\ had_error /\ "resolve" \in {stages[i] : i \in 1..Len(stages)}
    /\ stdout = <<>>
    /\ Globals(interpreter) = Globals(Interpreter)

\* C2: the parser is entered only if the scanner recorded no compile error for
\* the source, and the resolver only if neither scanner nor parser recorded one.
C2_StagesGatedOneByOne ==
    /\ (pc = "parse" /\ statements = <<>> /\ p_current = 0) => ~had_error
    /\ pc = "resolve" => ~had_error

\* C3: the step of interpret in which a runtime error is raised at top-level
\* statement k ends the run there (no later statement is executed), sets the
\* runtime-error flag, emits one runtime diagnostic and keeps the output and the
\* global definitions made before k; once the run has ended nothing executes.
C3_RuntimeErrorAbortsRun ==
    [][LET before == RuntimeDiagnostics(stdout \o stderr)
           after == RuntimeDiagnostics(stdout' \o stderr')
       IN  /\ after # before =>
                /\ after = before + 1
                /\ pc = "interpret" /\ pc' = "ran"
                /\ index < Len(statements) /\ index' = index
                /\ had_runtime_error'
                /\ IsPrefix(stdout, stdout')
                /\ \A name \in DOMAIN Globals(interpreter) :
                      /\ name \in DOMAIN Globals(interpreter')
                      /\ statements[index + 1].type # "Var" =>
                            Globals(interpreter')[name] = Globals(interpreter)[name]
           /\ pc = "ran" => (interpreter' = interpreter /\ stdout' = stdout /\ after = before)
      ]_vars

\* the third of four statements raised: the first two took effect, the fourth did not
C3_Witness ==
    /\ mode = "file" /\ pc = "ran"
    /\ source = ErrorAtThirdStatement
    /\ Len(statements) = 4 /\ index = 2
    /\ had_runtime_error
    /\ Len(stdout) = 2
    /\ stdout[1] = [kind |-> "text", text |-> <<"1">>]
    /\ IsRuntimeDiagnostic(stdout[2])
    /\ Globals(interpreter)[<<"a">>] = Num(1, 1)

\* C4: run_file ends with status 65 if the file could not be read, 64 if a
\* compile error was recorded, 70 if a runtime error was recorded and 0
\* otherwise, and no run records both a compile and a runtime error.
C4_ExitCodes ==
    (mode = "file" /\ pc = "exited") =>
        /\ exit_code = IF lines_read = 0 THEN 65
                       ELSE IF had_error THEN 64
                       ELSE IF had_runtime_error THEN 70
                       ELSE 0
        /\ ~(had_error /\ had_runtime_error)

\* C5: a runtime diagnostic is never written to stdout, and the file
\* `print "a" - 1;` ends with stdout empty, the diagnostic on stderr, status 70.
C5_RuntimeDiagnosticOnStderr ==
    /\ \A i \in 1..Len(stdout) : ~IsRuntimeDiagnostic(stdout[i])
    /\ (mode = "file" /\ pc = "exited" /\ source = PrintStringMinusOne) =>
          /\ stdout = <<>>
          /\ \E i \in 1..Len(stderr) : IsRuntimeDiagnostic(stderr[i])
          /\ exit_code = 70

C7_ScanNeverRaises ==
    /\ pc # "raised"
    /\ pc = "scanned" =>
          /\ tokens # <<>>
          /\ tokens[Len(tokens)].token_type = "EOF"
          /\ \A i \in 1..(Len(tokens) - 1) : tokens[i].token_type # "EOF"

(***************************************************************************)
(* Claims about the parser (checked under SpecParse)                       *)
(***************************************************************************)
AssignSources == {<<"a", "=", "1", ";">>, <<"a", "=", "a", ";">>, <<"a", "=", "1">>}

SetSources ==
    {<<"a", ".", "a", "=", "1", ";">>,
     <<"t", "h", "i", "s", ".", "n", "a", "m", "e", " ", "=", " ", "n", "a", "m", "e", ";">>}

\* C8: `IDENT = expr` parses to one Assign and `target.IDENT = expr` to one Set,
\* without a compile error.
C8_AssignmentParses ==
    (pc = "parsed" /\ source \in AssignSources \cup SetSources) =>
        /\ ~had_error
        /\ Len(statements) = 1
        /\ statements[1].type = "Expression"
        /\ statements[1].expression.type = (IF source \in AssignSources THEN "Assign" ELSE "Set")

\* the number of comma-separated argument expressions written in each call
CallSources ==
    {<<<<"a", "(", ")">>, 0>>,
     <<<<"a", "(", "1", ")">>, 1>>,
     <<<<"a", "(", "1", ",", "1", ")">>, 2>>,
     <<<<"a", "(", "1", ",", "1", ",", "1", ")", ";">>, 3>>}

\* C9: a call written with n comma-separated argument expressions parses to a
\* Call node with exactly n arguments.
C9_CallHasEveryArgument ==
    \A c \in CallSources :
        (pc = "parsed" /\ source = c[1]) =>
            /\ ~had_error
            /\ Len(statements) = 1
            /\ statements[1].type = "Expression"
            /\ statements[1].expression.type = "Call"
            /\ Len(statements[1].expression.arguments) = c[2]

PostfixChains ==
    {<<"a", "(", ")", "(", ")", ";">>,
     <<"a", ".", "a", ".", "a", ";">>,
     <<"a", "(", ")", ".", "a", "(", ")", "(", "a", ")", ";">>,
     <<"a", "(", ")", ".", "a">>,
     <<"a", ".", "a", "(", ")">>}

\* C10: every chain of call and property suffixes after a primary parses into
\* one nested Call/Get expression, without a compile error.
C10_PostfixChainParses ==
    (pc = "parsed" /\ source \in PostfixChains) =>
        /\ ~had_error
        /\ Len(statements) = 1
        /\ statements[1].type = "Expression"
        /\ statements[1].expression.type \in {"Call", "Get"}

(***************************************************************************)
(* Claims about statements and expressions (checked under Spec)            *)
(***************************************************************************)
\* the line print() writes for a text
Line(text) == [kind |-> "text", text |-> text]

\* run_file has ended on the file holding text
FileEnded(text) == mode = "file" /\ pc = "exited" /\ source = text

\* C11 as stated: a file whose expression statements are not followed by `;`
\* is reported as a compile error and is not executed.
C11_SemicolonRequired ==
    FileEnded(ExpressionsWithoutSemicolon) => (had_error /\ stdout = <<>>)

\* C11: the `;` that ends an expression statement is optional: a file whose
\* expression statements are not followed by `;` parses without a compile
\* error, each of them is one Expression statement, and they are executed.
C11_SemicolonOptional ==
    FileEnded(ExpressionsWithoutSemicolon) =>
        /\ ~had_error /\ stderr = <<>>
        /\ Len(statements) = 3
        /\ statements[2].type = "Expression" /\ statements[3].type = "Expression"
        /\ stdout = <<Line(<<"1">>), Line(<<"1">>)>>
        /\ exit_code = 0

\* both calls of `f() f()` were parsed from tokens without a `;` between or
\* after them, and both have printed
C11_Witness ==
    /\ FileEnded(ExpressionsWithoutSemicolon)
    /\ tokens[Len(tokens) - 1].token_type = "RIGHT_PAREN"
    /\ tokens[Len(tokens) - 3].token_type = "IDENTIFIER"
    /\ tokens[Len(tokens) - 4].token_type = "RIGHT_PAREN"
    /\ Len(stdout) = 2

\* C12 as stated: is_truthy is false exactly for nil and false, so the
\* conditions 0 and "" are taken: of the four `if` statements of the file the
\* first two print and the last two do not.
C12_ZeroAndEmptyStringAreTruthy ==
    FileEnded(IfZeroOrEmptyString) =>
        /\ stdout = <<Line(<<"1">>), Line(<<"2">>)>>
        /\ stderr = <<>>

\* C13 as stated: `==` is defined for every pair and never raises; nil == nil
\* is true, so `print nil == nil;` prints True and reports nothing.
C13_NilEqualsNil ==
    FileEnded(NilEqualsNil) =>
        /\ stdout = <<Line(<<"T", "r", "u", "e">>)>>
        /\ RuntimeDiagnostics(stdout) = 0
        /\ ~had_runtime_error

\* C14 as stated: `<` requires two numbers, so `print "a" < "b";` raises a
\* runtime error and prints no value.
C14_ComparisonNeedsNumbers ==
    FileEnded(CompareStrings) =>
        /\ had_runtime_error
        /\ \A i \in 1..Len(stdout) : IsRuntimeDiagnostic(stdout[i])

\* operand values of every type a literal can have
OperandSamples == {None, Bool(TRUE), Num(0, 1), Num(3, 2), Str(<<>>), Str(<<"a">>)}

\* the expression `l op r` of two literals
BinaryOfLiterals(l, token_type, r) ==
    Binary(1, Literal(2, l), Token(token_type, <<>>, None, 1), Literal(3, r))

\* C14: `-`, `*`, `/` require two numbers and raise "operands must both be
\* numbers" on any other pair; `<`, `<=`, `>`, `>=` accept two numbers or two
\* strings, as `+` does, and raise "operands must be either both numbers or
\* both strings" on any other pair; a raising operator produces no value.
\* `print "a" < "b";` prints True and raises nothing.
C14_OperandTypes ==
    /\ \A l \in OperandSamples, r \in OperandSamples :
         \A token_type \in {"MINUS", "STAR", "SLASH", "LESSER", "LESSER_EQUAL",
                            "GREATER", "GREATER_EQUAL", "PLUS"} :
            With(visit_binary_expr(interpreter, BinaryOfLiterals(l, token_type, r)),
                 LAMBDA outcome :
                IF isinstance_float(l) /\ isinstance_float(r)
                THEN IF token_type = "SLASH" /\ r = Num(0, 1)
                     THEN outcome.error.message = "cannot divide by zero"
                     ELSE outcome.signal = "" /\ outcome.value.k \in {"num", "bool"}
                ELSE IF token_type \in {"MINUS", "STAR", "SLASH"}
                THEN /\ outcome.signal = "LoxRuntimeError" /\ outcome.value = None
                     /\ outcome.error.message = "operands must both be numbers"
                ELSE IF isinstance_str(l) /\ isinstance_str(r)
                THEN outcome.signal = "" /\ outcome.value.k \in {"str", "bool"}
                ELSE /\ outcome.signal = "LoxRuntimeError" /\ outcome.value = None
                     /\ outcome.error.message =
                            "operands must be either both numbers or both strings")
    /\ FileEnded(CompareStrings) =>
            /\ stdout = <<Line(<<"T", "r", "u", "e">>)>>
            /\ ~had_runtime_error /\ exit_code = 0

\* the comparison of two strings has been evaluated and its value printed
C14_Witness ==
    /\ FileEnded(CompareStrings)
    /\ statements[1].expression.operator.token_type = "LESSER"
    /\ isinstance_str(statements[1].expression.left.value)
    /\ isinstance_str(statements[1].expression.right.value)
    /\ Len(stdout) = 1 /\ ~IsRuntimeDiagnostic(stdout[1])

\* C15 as stated: a <= b is true iff a is at most b, so `1 <= 1` is true and
\* the `if` of the file takes its then branch, printing 1.
C15_OneAtMostOne ==
    FileEnded(OneAtMostOne) => stdout = <<Line(<<"1">>)>>

\* C16 as stated: a grouping evaluates to the value of its inner expression,
\* so `print (1 + 2) * 3;` prints 9.
C16_GroupingHasInnerValue ==
    FileEnded(GroupingTimesThree) => stdout = <<Line(<<"9">>)>>

\* C17 as stated: `or` returns a truthy left operand and `and` a falsey one
\* without evaluating the right operand, which is evaluated once otherwise;
\* so of `1 or f()`, `nil and f()`, `nil or f()`, `0 or f()` only the third
\* calls f (which prints 9 and returns 2), and the results printed are 1, nil,
\* 2 and 0.
C17_ShortCircuit ==
    FileEnded(ShortCircuit) =>
        stdout = <<Line(<<"1">>), Line(<<"n", "i", "l">>), Line(<<"9">>), Line(<<"2">>),
                   Line(<<"0">>)>>

\* C18 as stated: the scenario-2 program runs with no error and prints
\* `global` twice.
C18_ShowAPrintsGlobalTwice ==
    FileEnded(ShowA) =>
        /\ ~had_error /\ ~had_runtime_error /\ stderr = <<>>
        /\ stdout = <<Line(<<"g", "l", "o", "b", "a", "l">>),
                      Line(<<"g", "l", "o", "b", "a", "l">>)>>

\* C18: a free variable of a function body refers to the binding visible
\* where the function was declared, even after a variable of the same name is
\* declared later in the enclosing block: with the block's `a` read at the end
\* of the block the program runs with no error and both calls of showA print
\* `global` (the read prints `block`).  The scenario-2 program itself never
\* reads its block's `a`: the resolver reports that local as unused, and the
\* program is not run.
C18_StaticScoping ==
    /\ FileEnded(ShowAThenUse) =>
            /\ ~had_error /\ ~had_runtime_error /\ stderr = <<>>
            /\ stdout = <<Line(<<"g", "l", "o", "b", "a", "l">>),
                          Line(<<"g", "l", "o", "b", "a", "l">>),
                          Line(<<"b", "l", "o", "c", "k">>)>>
    /\ FileEnded(ShowA) =>
            /\ had_error /\ stdout = <<>>
            /\ Len(stderr) = 1
            /\ stderr[1].message = "local variable was not used"
            /\ stderr[1].lexeme = <<"a">>
            /\ stages = <<"scan", "parse", "resolve">>

\* showA has been called after the block's own `a` was defined: the third
\* line printed is the block's value
C18_Witness ==
    /\ FileEnded(ShowAThenUse)
    /\ Len(stdout) = 3
    /\ stdout[3] = Line(<<"b", "l", "o", "c", "k">>)
    /\ stages = <<"scan", "parse", "resolve", "interpret">>

\* C19 as stated: a closure sees later assignments to the variables it
\* captured: count(), which adds 1 to the captured `i` and returns it,
\* returns 1 and then 2.
C19_CounterClosure ==
    FileEnded(CounterClosure) =>
        /\ ~had_error
        /\ stdout = <<Line(<<"1">>), Line(<<"2">>)>>

\* C20 as stated: reading or assigning a name that is absent from globals
\* raises the runtime error "undefined variable", and the failed assignment
\* creates no binding.
C20_UndefinedGlobal ==
    /\ FileEnded(ReadUndefined) =>
            /\ ~had_error /\ had_runtime_error
            /\ Len(stdout) = 1 /\ IsRuntimeDiagnostic(stdout[1])
            /\ stdout[1].message = "undefined variable"
    /\ FileEnded(AssignUndefined) =>
            /\ ~had_error /\ had_runtime_error
            /\ Len(stdout) = 1 /\ IsRuntimeDiagnostic(stdout[1])
            /\ stdout[1].message = "undefined variable"
            /\ <<"x">> \notin DOMAIN Globals(interpreter)

(***************************************************************************)
(* Claims about classes (checked under Spec)                               *)
(***************************************************************************)
\* C21: calling a class returns a new instance with no field, after init has
\* run bound to it with the call's arguments; init yields the instance bound
\* to `this` when it ends normally, when it executes a bare `return;`, and
\* when it is called again as a.init(...): the file prints the argument of
\* each call of init (and 0 where init runs to its end), and `A instance` for
\* each of the two direct calls; `a` is the one instance made.
C21_InitializerYieldsInstance ==
    FileEnded(InitTwice) =>
        /\ ~had_error /\ ~had_runtime_error
        /\ stdout = <<Line(<<"n", "i", "l">>), Line(<<"0">>),
                      Line(<<"1">>), Line(<<"A", " ", "i", "n", "s", "t", "a", "n", "c", "e">>),
                      Line(<<"n", "i", "l">>), Line(<<"0">>),
                      Line(<<"A", " ", "i", "n", "s", "t", "a", "n", "c", "e">>)>>
        /\ interpreter.instances = <<EmptyDict>>
        /\ Globals(interpreter)[<<"a">>] = LoxInstance(Globals(interpreter)[<<"A">>], 1)

\* init has been called by the class and twice on the instance, and the
\* class A it belongs to has flagged it as initializer
C21_Witness ==
    /\ FileEnded(InitTwice)
    /\ Len(stdout) = 7
    /\ Globals(interpreter)[<<"A">>].methods[<<"i", "n", "i", "t">>].is_initializer
    /\ Len(interpreter.instances) = 1

\* the token of a property name
NameToken(lexeme) == Token("IDENTIFIER", lexeme, None, 1)

\* the line runtime_error prints for a LoxRuntimeError
RuntimeErrorLine(ln, message) == [kind |-> "LoxRuntimeError", line |-> ln, message |-> message]

\* C22: a property of an instance is looked up in its fields, then in its
\* class's methods, then in the superclasses, and is the runtime error
\* "undefined property" if none has the name; a method is returned bound to
\* the instance, in a new function with a new environment (whose enclosing is
\* the method's closure and which defines `this`), the class's method and its
\* closure staying as they were: m of an A instance and m of a B instance
\* (inherited from A) print `A instance` and `B instance`, and B().x raises.
\* A field of the name of a method is found before the method.
C22_PropertyLookup ==
    /\ FileEnded(BoundMethods) =>
            /\ ~had_error /\ had_runtime_error
            /\ stdout = <<Line(<<"A", " ", "i", "n", "s", "t", "a", "n", "c", "e">>),
                          Line(<<"B", " ", "i", "n", "s", "t", "a", "n", "c", "e">>),
                          RuntimeErrorLine(1, "undefined property")>>
            /\ With(Globals(interpreter), LAMBDA g :
                  /\ <<"t", "h", "i", "s">> \notin DOMAIN g
                  /\ DOMAIN g[<<"A">>].methods = {<<"m">>}
                  /\ DOMAIN g[<<"B">>].methods = {}
                  /\ g[<<"A">>].methods[<<"m">>].closure = global_env
                  /\ g[<<"m">>].declaration = g[<<"A">>].methods[<<"m">>].declaration
                  /\ g[<<"n">>].declaration = g[<<"A">>].methods[<<"m">>].declaration
                  /\ g[<<"m">>].closure # g[<<"n">>].closure
                  /\ \A f \in {g[<<"m">>], g[<<"n">>]} :
                        /\ f.closure # global_env
                        /\ interpreter.envs[f.closure].enclosing = global_env
                        /\ DOMAIN interpreter.envs[f.closure].values = {<<"t", "h", "i", "s">>}
                  /\ interpreter.envs[g[<<"m">>].closure].values[<<"t", "h", "i", "s">>].cls
                        = g[<<"A">>]
                  /\ interpreter.envs[g[<<"n">>].closure].values[<<"t", "h", "i", "s">>].cls
                        = g[<<"B">>])
    /\ FileEnded(InitTwice) =>
            With(Globals(interpreter)[<<"a">>], LAMBDA a :
                /\ instance_get(interpreter, a, NameToken(<<"i", "n", "i", "t">>)).value.k
                      = "function"
                /\ instance_get(instance_set(interpreter, a, <<"i", "n", "i", "t">>, Num(5, 1)),
                                a, NameToken(<<"i", "n", "i", "t">>)).value = Num(5, 1)
                /\ instance_get(interpreter, a, NameToken(<<"x">>)).signal = "LoxRuntimeError")

\* the method m has been bound to an instance of A and to an instance of B,
\* and both bound methods have been called
C22_Witness ==
    /\ FileEnded(BoundMethods)
    /\ Len(interpreter.instances) = 3
    /\ {<<"m">>, <<"n">>} \subseteq DOMAIN Globals(interpreter)
    /\ Len(stdout) = 3

\* C23: `super.m` in a method declared in B (B < A) looks m up from A, the
\* superclass of the declaring class, whatever the class of `this`, and
\* returns it bound to the current `this`; it is the runtime error "undefined
\* property" if A and its ancestors lack the name.  With C < B, n() of B
\* called on a C instance runs A's m, which prints `C instance` (B's own m
\* would print 2), and `super.x` then raises.
C23_SuperStartsAtDeclaringClass ==
    FileEnded(SuperFromB) =>
        /\ ~had_error /\ had_runtime_error
        /\ stdout = <<Line(<<"C", " ", "i", "n", "s", "t", "a", "n", "c", "e">>),
                      RuntimeErrorLine(1, "undefined property")>>

\* n, declared in B, has been called on an instance of C, whose superclass B
\* has an m of its own
C23_Witness ==
    /\ FileEnded(SuperFromB)
    /\ Len(stdout) = 2
    /\ With(Globals(interpreter), LAMBDA g :
          /\ g[<<"C">>].superclass = g[<<"B">>]
          /\ g[<<"B">>].superclass = g[<<"A">>]
          /\ DOMAIN g[<<"B">>].methods = {<<"m">>, <<"n">>}
          /\ DOMAIN g[<<"C">>].methods = {})
    /\ Len(interpreter.instances) = 1

(***************************************************************************)
(* Claims about printing and loops (checked under Spec)                    *)
(***************************************************************************)
\* C24 as stated: nil prints as `nil`, a number of integral value without a
\* trailing `.0`, and the booleans as lowercase `true` and `false`: the file
\* `print nil; print 1; print 2.5; print true; print false;` prints nil, 1,
\* 2.5, true, false.
C24_LowercaseBooleans ==
    FileEnded(PrintValues) =>
        stdout = <<Line(<<"n", "i", "l">>), Line(<<"1">>), Line(<<"2", ".", "5">>),
                   Line(<<"t", "r", "u", "e">>), Line(<<"f", "a", "l", "s", "e">>)>>

(***************************************************************************)
(* Claims about the parser's and the scanner's loops                       *)
(***************************************************************************)
\* C25 (checked under SpecParse): every call of declaration() made by
\* parse() leaves the parser further in the token list, whether it returns a
\* statement or reports an error and synchronizes, and the parser never
\* passes the EOF token that ends the list: parse() makes at most as many
\* calls as there are tokens before EOF and then returns, for every token
\* list, with or without syntax errors.
C25_ParseTerminates ==
    /\ [](pc \in {"parse", "parsed"} =>
            /\ p_current + 1 \in 1..Len(tokens)
            /\ tokens[Len(tokens)].token_type = "EOF"
            /\ Len(statements) <= p_current
            /\ (pc = "parsed" => p_current + 1 = Len(tokens)))
    /\ [][(pc = "parse" /\ ~p_is_at_end(TheParser))
            => (pc' = "parse" /\ p_current' > p_current)]_vars
    /\ [][(pc = "parse" /\ p_is_at_end(TheParser)) => pc' = "parsed"]_vars

\* parse() has returned on `{a;)}`: the error at `)` inside the block was
\* reported, synchronize ran to EOF, and the block's missing `}` ended the
\* one declaration with None
C25_Witness ==
    /\ mode = "parse" /\ pc = "parsed"
    /\ source = <<"{", "a", ";", ")", "}">>
    /\ had_error /\ Len(stderr) = 2
    /\ statements = <<NoneNode>>
    /\ tokens[p_current + 1].token_type = "EOF"

\* the number of newline characters among the first n characters of text
Newlines(text, n) == Cardinality({i \in 1..n : text[i] = NL})

\* C26 (checked under SpecScan): between two calls of scan_token the line
\* counter is 1 plus the number of newline characters consumed so far,
\* whether they stood alone, inside a string literal or inside a block
\* comment, closed or not; no call of scan_token lowers the counter; and
\* the EOF token carries 1 plus the number of newlines of the whole source.
C26_LineCountsNewlines ==
    /\ [](pc \in {"scan", "scanned"} => line = 1 + Newlines(source, current))
    /\ [][line' >= line]_vars
    /\ [](pc = "scanned" =>
            /\ tokens[Len(tokens)].token_type = "EOF"
            /\ tokens[Len(tokens)].line = 1 + Newlines(source, Len(source)))

(***************************************************************************)
(* Claims about scopes and environments (checked under Spec)               *)
(***************************************************************************)
\* the exceptions of Environment.get_at and assign_at: a walk through None
\* (AttributeError) and a name missing from the ancestor's values (KeyError)
AncestorFailures == {"AttributeError", "KeyError"}

\* C27: in a program with no compile error no statement ends with an
\* exception of get_at or assign_at: wherever the evaluator reaches a node
\* that the resolver gave a distance, the environment that many hops up the
\* current chain exists and holds the name.  The binding read is the one the
\* resolver chose: g, declared inside f(a), reads `a` one hop up, in the
\* environment of the call f(1), and its own parameter in its own
\* environment (prints 1 and 2); `this` is read one hop above a method's
\* body and `super` two hops above it (the method n of B, called on a C
\* instance, runs A's m with that instance).
C27_ResolvedNamesAreFound ==
    /\ (pc = "interpret" /\ index < Len(statements)) =>
            /\ ~had_error
            /\ interpret_statement(interpreter, statements[index + 1],
                                   mode = "repl").signal \notin AncestorFailures
    /\ FileEnded(ClosureOverParameter) =>
            /\ ~had_error /\ ~had_runtime_error /\ exit_code = 0
            /\ stdout = <<Line(<<"1">>), Line(<<"2">>)>>
    /\ FileEnded(SuperFromB) =>
            /\ ~had_error
            /\ Len(stdout) = 2
            /\ stdout[1] = Line(<<"C", " ", "i", "n", "s", "t", "a", "n", "c", "e">>)

\* g has run: the resolver gave distances 0 (b, and f and g where they are
\* called or returned) and 1 (a) to nodes of the program, and both values
\* came out
C27_Witness ==
    /\ FileEnded(ClosureOverParameter)
    /\ stdout = <<Line(<<"1">>), Line(<<"2">>)>>
    /\ {interpreter.local_env[id] : id \in DOMAIN interpreter.local_env} = {0, 1}
    /\ stages = <<"scan", "parse", "resolve", "interpret">>

\* C28: a class declaration evaluates its superclass expression first.  If
\* the value is not a class the statement ends with the runtime error
\* "superclass must be a class" and has changed nothing: the class name has
\* no binding and the current environment is the one the declaration ran in.
\* Otherwise the name is bound to the new class in that environment, which
\* is again the current one: a class declared in a block is bound in the
\* block's environment and unknown after the block.
C28_SuperclassCheckedBeforeDefine ==
    /\ (pc = "interpret" /\ index < Len(statements)
            /\ statements[index + 1].type = "Class") =>
          With(execute(interpreter, statements[index + 1]), LAMBDA x :
            /\ x.st.env = interpreter.env
            /\ IF x.signal = ""
               THEN With(x.st.envs[x.st.env].values[statements[index + 1].name.lexeme],
                         LAMBDA cls :
                            /\ isinstance_LoxClass(cls)
                            /\ cls.name = statements[index + 1].name.lexeme)
               ELSE /\ x.signal = "LoxRuntimeError"
                    /\ x.st.envs = interpreter.envs)
    /\ FileEnded(SuperclassNotAClass) =>
            /\ ~had_error /\ had_runtime_error
            /\ stdout = <<RuntimeErrorLine(1, "superclass must be a class")>>
            /\ DOMAIN Globals(interpreter) = {<<"c", "l", "o", "c", "k">>, <<"x">>}
            /\ interpreter.env = global_env
            /\ Len(interpreter.envs) = 1
    /\ FileEnded(ClassInBlock) =>
            /\ ~had_error
            /\ stdout = <<Line(<<"B">>), RuntimeErrorLine(1, "undefined variable")>>
            /\ DOMAIN Globals(interpreter) = {<<"c", "l", "o", "c", "k">>}
            /\ interpreter.env = global_env

\* `class B < x {}` has been executed with x = 1: the error was reported and
\* the run is over
C28_Witness ==
    /\ FileEnded(SuperclassNotAClass)
    /\ Globals(interpreter)[<<"x">>] = Num(1, 1)
    /\ had_runtime_error
    /\ Len(stdout) = 1
    /\ index = 1

C30_EnvironmentRestored ==
    /\ interpreter.env = global_env
    /\ interpreter.envs[global_env].enclosing = 0
    /\ (pc = "interpret" /\ index < Len(statements)) =>
            interpret_statement(interpreter, statements[index + 1],
                                mode = "repl").st.env = global_env

\* the prompt has read a second line after `fun f() { nil(); } { f(); }`
\* failed inside the call made in the block: the environments of the block
\* and of the call exist, and the current one is the global environment
C30_Witness ==
    /\ mode = "repl" /\ lines_read = 2 /\ pc = "interpret"
    /\ had_runtime_error
    /\ stdout # <<>>
    /\ stdout[1] = RuntimeErrorLine(1, "can only call functions and classes")
    /\ <<"f">> \in DOMAIN Globals(interpreter)
    /\ Len(interpreter.envs) = 3
    /\ interpreter.envs[3].enclosing = global_env
    /\ interpreter.env = global_env

====
